---- MODULE Spec2Model ----
(***************************************************************************)
(* CommBridge (custom_terminal.py) and ToolRuntime (sz_runtime.py).        *)
(*                                                                         *)
(* The bridge is modelled at the grain of its threads: the heartbeat       *)
(* thread, the thread calling retry_queue, the thread calling              *)
(* send_message and one thread per live dispatch.  A step of a thread is   *)
(* one action; the shared fields (status, message_queue, the counters,     *)
(* agent.last_error) are read and written where the code reads and writes  *)
(* them.  The event handlers on_status_change, on_message_queued,          *)
(* on_message_delivered, on_message_failed and on_queue_drained are        *)
(* registered (CustomTerminal._setup_bridge_callbacks); a call of one is   *)
(* recorded as an event in ev (heartbeat, retry and send threads) or in    *)
(* the dispatch thread's record.                                           *)
(***************************************************************************)
EXTENDS Integers, Sequences, FiniteSets, TLC

\* ------------------------------------------------------------------ bounds
\* send_message calls in Spec
MaxSends == 2
\* send_message calls in SpecQueue after the first QueueFill
ExtraSends == 2
\* queued prompts the agent delivers in SpecQueue
DrainDepth == 2
\* handler results in execution_log
MaxLog == 2
\* send_message calls in SpecSeq
MaxSendsSeq == 3
\* cap on consecutive_failures (an unbounded counter)
MaxFailures == 2
\* the most calls in a list given to execute_all
MaxCalls == 2
\* the most parameters in a text given to parse
MaxParams == 2
\* the most results in a list given to format_results
MaxResults == 2

\* ------------------------------------------------------- program constants
\* deque(maxlen=50)
MaxQueueLen == 50

CONNECTED == "connected"
DISCONNECTED == "disconnected"
RECONNECTING == "reconnecting"
CHECKING == "checking"

\* agent.last_error is None, or the error the last chat() left
None == "None"

VARIABLES
    status,                 \* self.status
    last_check_time,        \* self.last_check_time: None, or the time of the
                            \* last probe
    info,                   \* the dict of the get_status_info call under way
    message_queue,          \* self.message_queue: entries, oldest first
    consecutive_failures,   \* self.consecutive_failures
    total_messages_sent,    \* self.total_messages_sent
    total_messages_failed,  \* self.total_messages_failed
    heartbeat_running,      \* self._heartbeat_running
    last_error,             \* self.agent.last_error (shared by every chat)
    pc,                     \* position of the threads "hb", "ui", "snd"
    hb,                     \* _heartbeat_loop locals: old_status, reachable; and
                            \* prev, the probe of the iteration before ("ok",
                            \* "fail", or "fail_connected": failed, having
                            \* started Connected)
    drain,                  \* _drain_queue locals of "hb" and "ui"
    retry,                  \* retry_queue locals: count_before, ret
    send,                   \* send_message locals: prompt, callback, read, ret
    disp,                   \* the _dispatch threads, by prompt
    ev,                     \* handler calls of "hb", "ui", "snd" in their
                            \* current (or last) iteration or call
    nextId,                 \* the next prompt
    auto_trade,             \* ToolRuntime.auto_trade
    execution_log,          \* ToolRuntime.execution_log
    handler_calls,          \* how often execute has called a registered handler
    rt,                     \* the last execute: its call and what came of it
    ra,                     \* the last execute_all: its calls, what the handlers
                            \* reported, and what came of it
    parsed,                 \* the last parse: its text and the calls it returned
    formatted,              \* the last format_results: its results and its text
    scan,                   \* the parse_tool_calls call under way: its locals
    og,                     \* the ollama_generate call under way: retry_count,
                            \* the outcomes of its attempts, what it returned
    hb2                     \* a second _heartbeat_loop thread: its position,
                            \* its old_status, its handler calls

bridgeVars == <<status, last_check_time, info, message_queue, consecutive_failures, total_messages_sent,
                total_messages_failed, heartbeat_running, last_error, pc, hb,
                drain, retry, send, disp, ev, nextId>>

rtVars == <<auto_trade, execution_log, handler_calls, rt, ra, parsed, formatted,
            scan, og, hb2>>

Drainers == {"hb", "ui"}

\* ------------------------------------------------------------------ events
EvStatus(old, new) == [e |-> "status", old |-> old, new |-> new]
EvQueued(p, n) == [e |-> "queued", prompt |-> p, size |-> n]
EvDelivered(p, r) == [e |-> "delivered", prompt |-> p, response |-> r]
EvFailed(p) == [e |-> "failed", prompt |-> p]
EvDrained(n) == [e |-> "drained", count |-> n]
EvCallback(p, err) == [e |-> "callback", prompt |-> p, error |-> err]

\* the reply agent.chat returns for a prompt
Reply(p) == p

\* ------------------------------------------------- collections.deque(maxlen)
\* deque.append without maxlen
DequeAppendUnbounded(q, x) == Append(q, x)

\* deque.append, but a full deque discards the new item
DequeAppendDropNew(q, x) ==
    IF Len(q) >= MaxQueueLen THEN q ELSE Append(q, x)

\* deque.append: a full deque discards its leftmost item
DequeAppend(q, x) ==
    IF Len(q) >= MaxQueueLen THEN Append(Tail(q), x) ELSE Append(q, x)

\* deque.appendleft, but at the right end
DequeAppendLeftAtRight(q, x) == DequeAppend(q, x)

\* deque.appendleft: a full deque discards its rightmost item
DequeAppendLeft(q, x) ==
    IF Len(q) >= MaxQueueLen THEN <<x>> \o SubSeq(q, 1, Len(q) - 1) ELSE <<x>> \o q

NoMsg == [prompt |-> 0, callback |-> FALSE]

\* the locals of a _drain_queue call, and its history: the prompts it has
\* passed to agent.chat, whether it stopped on a failure, and whether
\* send_message has appended an entry since it popped msg
NewDrain ==
    [msg |-> NoMsg, delivered |-> 0, att |-> <<>>, failed |-> FALSE,
     appended |-> FALSE]

\* before: the queue count_before is the length of
NoRetry == [before |-> <<>>, count_before |-> 0, ret |-> -1]
NoSend == [prompt |-> 0, callback |-> FALSE, read |-> CHECKING, ret |-> "none"]

\* datetime.now(): the times of the probes are not told apart
Now == "now"

\* no get_status_info call under way
NoInfo == [status |-> "none"]

\* ---------------------------------------------------------------- __init__
BridgeInit ==
    /\ status = CHECKING
    /\ last_check_time = None
    /\ info = NoInfo
    /\ message_queue = <<>>
    /\ consecutive_failures = 0
    /\ total_messages_sent = 0
    /\ total_messages_failed = 0
    /\ heartbeat_running = FALSE
    /\ last_error = None
    /\ pc = [hb |-> "none", ui |-> "idle", snd |-> "idle"]
    /\ hb = [old_status |-> CHECKING, reachable |-> "none", prev |-> "none"]
    /\ drain = [t \in Drainers |-> NewDrain]
    /\ retry = NoRetry
    /\ send = NoSend
    /\ disp = <<>>
    /\ ev = [hb |-> <<>>, ui |-> <<>>, snd |-> <<>>]
    /\ nextId = 1

\* ---------------------------------------------------------- start_heartbeat
start_heartbeat ==
    /\ ~heartbeat_running
    /\ heartbeat_running' = TRUE
    /\ pc' = [pc EXCEPT !.hb = "top"]
    /\ UNCHANGED <<status, message_queue, consecutive_failures, total_messages_sent,
                   total_messages_failed, last_error, hb, drain, retry, send, disp,
                   ev, nextId>>
    /\ UNCHANGED <<last_check_time, info>>
    /\ UNCHANGED rtVars

\* ----------------------------------------------------------- stop_heartbeat
\* self._heartbeat_running = False, called by the thread "ui"
stop_heartbeat ==
    /\ pc.ui = "idle"
    /\ heartbeat_running' = FALSE
    /\ pc' = [pc EXCEPT !.ui = "stopped"]
    /\ UNCHANGED <<status, message_queue, consecutive_failures, total_messages_sent,
                   total_messages_failed, last_error, hb, drain, retry, send, disp,
                   ev, nextId>>
    /\ UNCHANGED <<last_check_time, info>>
    /\ UNCHANGED rtVars

\* the caller of stop_heartbeat goes on
stop_returns ==
    /\ pc.ui = "stopped"
    /\ pc' = [pc EXCEPT !.ui = "idle"]
    /\ UNCHANGED <<status, message_queue, consecutive_failures, total_messages_sent,
                   total_messages_failed, heartbeat_running, last_error, hb, drain,
                   retry, send, disp, ev, nextId>>
    /\ UNCHANGED <<last_check_time, info>>
    /\ UNCHANGED rtVars

\* ---------------------------------------------------- _notify_status_change
\* the events of thread t after _notify_status_change(old, new)
notify_status_change(evs, old, new) ==
    IF old # new THEN Append(evs, EvStatus(old, new)) ELSE evs

\* ---------------------------------------------------------- _heartbeat_loop
\* heartbeat_top, but the loop is while True
heartbeat_top_ignores_stop ==
    /\ pc.hb \in {"top", "sleep"}
    /\ hb' = [old_status |-> status, reachable |-> "none",
              prev |-> IF hb.reachable = "fail" /\ hb.old_status = CONNECTED
                       THEN "fail_connected" ELSE hb.reachable]
    /\ ev' = [ev EXCEPT !.hb = <<>>]
    /\ drain' = [drain EXCEPT !.hb = NewDrain]
    /\ pc' = [pc EXCEPT !.hb = "probe"]
    /\ UNCHANGED <<status, message_queue, consecutive_failures, total_messages_sent,
                   total_messages_failed, heartbeat_running, last_error, retry, send,
                   disp, nextId>>
    /\ UNCHANGED <<last_check_time, info>>
    /\ UNCHANGED rtVars

\* (the thread starts, or time.sleep returns, and) while
\* self._heartbeat_running: old_status = self.status
heartbeat_top ==
    /\ pc.hb \in {"top", "sleep"}
    /\ heartbeat_running
    /\ hb' = [old_status |-> status, reachable |-> "none",
              prev |-> IF hb.reachable = "fail" /\ hb.old_status = CONNECTED
                       THEN "fail_connected" ELSE hb.reachable]
    /\ ev' = [ev EXCEPT !.hb = <<>>]
    /\ drain' = [drain EXCEPT !.hb = NewDrain]
    /\ pc' = [pc EXCEPT !.hb = "probe"]
    /\ UNCHANGED <<status, message_queue, consecutive_failures, total_messages_sent,
                   total_messages_failed, heartbeat_running, last_error, retry, send,
                   disp, nextId>>
    /\ UNCHANGED <<last_check_time, info>>
    /\ UNCHANGED rtVars

\* (the thread starts, or time.sleep returns, and) self._heartbeat_running is
\* False: the loop, and the thread, ends
heartbeat_exit ==
    /\ pc.hb \in {"top", "sleep"}
    /\ ~heartbeat_running
    /\ pc' = [pc EXCEPT !.hb = "none"]
    /\ UNCHANGED <<status, message_queue, consecutive_failures, total_messages_sent,
                   total_messages_failed, heartbeat_running, last_error, hb, drain,
                   retry, send, disp, ev, nextId>>
    /\ UNCHANGED <<last_check_time, info>>
    /\ UNCHANGED rtVars

\* heartbeat_probe, but a failed probe leaves self.status as it was
heartbeat_probe_keeps_status(reachable) ==
    /\ pc.hb = "probe"
    /\ ~reachable => consecutive_failures < MaxFailures
    /\ hb' = [hb EXCEPT !.reachable = IF reachable THEN "ok" ELSE "fail"]
    /\ IF reachable
       THEN /\ consecutive_failures' = 0
            /\ IF hb.old_status = DISCONNECTED
               THEN /\ status' = RECONNECTING
                    /\ ev' = [ev EXCEPT !.hb =
                                notify_status_change(@, hb.old_status, RECONNECTING)]
                    /\ drain' = [drain EXCEPT !.hb = NewDrain]
                    /\ pc' = [pc EXCEPT !.hb = "drain_loop"]
               ELSE /\ status' = CONNECTED
                    /\ ev' = [ev EXCEPT !.hb =
                                IF hb.old_status # CONNECTED
                                THEN notify_status_change(@, hb.old_status, CONNECTED)
                                ELSE @]
                    /\ pc' = [pc EXCEPT !.hb = "sleep"]
                    /\ UNCHANGED drain
       ELSE /\ consecutive_failures' = consecutive_failures + 1
            /\ status' = status
            /\ ev' = [ev EXCEPT !.hb =
                        IF hb.old_status # DISCONNECTED
                        THEN notify_status_change(@, hb.old_status, DISCONNECTED)
                        ELSE @]
            /\ pc' = [pc EXCEPT !.hb = "sleep"]
            /\ UNCHANGED drain
    /\ UNCHANGED <<message_queue, total_messages_sent, total_messages_failed,
                   heartbeat_running, last_error, retry, send, disp, nextId>>
    /\ last_check_time' = Now
    /\ UNCHANGED info
    /\ UNCHANGED rtVars

\* heartbeat_probe, but the queue is drained unless the iteration began
\* Connected
heartbeat_probe_drains_unless_connected(reachable) ==
    /\ pc.hb = "probe"
    /\ ~reachable => consecutive_failures < MaxFailures
    /\ hb' = [hb EXCEPT !.reachable = IF reachable THEN "ok" ELSE "fail"]
    /\ IF reachable
       THEN /\ consecutive_failures' = 0
            /\ IF hb.old_status # CONNECTED
               THEN /\ status' = RECONNECTING
                    /\ ev' = [ev EXCEPT !.hb =
                                notify_status_change(@, hb.old_status, RECONNECTING)]
                    /\ drain' = [drain EXCEPT !.hb = NewDrain]
                    /\ pc' = [pc EXCEPT !.hb = "drain_loop"]
               ELSE /\ status' = CONNECTED
                    /\ ev' = [ev EXCEPT !.hb =
                                IF hb.old_status # CONNECTED
                                THEN notify_status_change(@, hb.old_status, CONNECTED)
                                ELSE @]
                    /\ pc' = [pc EXCEPT !.hb = "sleep"]
                    /\ UNCHANGED drain
       ELSE /\ consecutive_failures' = consecutive_failures + 1
            /\ status' = DISCONNECTED
            /\ ev' = [ev EXCEPT !.hb =
                        IF hb.old_status # DISCONNECTED
                        THEN notify_status_change(@, hb.old_status, DISCONNECTED)
                        ELSE @]
            /\ pc' = [pc EXCEPT !.hb = "sleep"]
            /\ UNCHANGED drain
    /\ UNCHANGED <<message_queue, total_messages_sent, total_messages_failed,
                   heartbeat_running, last_error, retry, send, disp, nextId>>
    /\ last_check_time' = Now
    /\ UNCHANGED info
    /\ UNCHANGED rtVars

\* heartbeat_probe, but a failed probe is counted only when it changes the
\* state
heartbeat_probe_counts_changes(reachable) ==
    /\ pc.hb = "probe"
    /\ ~reachable => consecutive_failures < MaxFailures
    /\ hb' = [hb EXCEPT !.reachable = IF reachable THEN "ok" ELSE "fail"]
    /\ IF reachable
       THEN /\ consecutive_failures' = 0
            /\ IF hb.old_status = DISCONNECTED
               THEN /\ status' = RECONNECTING
                    /\ ev' = [ev EXCEPT !.hb =
                                notify_status_change(@, hb.old_status, RECONNECTING)]
                    /\ drain' = [drain EXCEPT !.hb = NewDrain]
                    /\ pc' = [pc EXCEPT !.hb = "drain_loop"]
               ELSE /\ status' = CONNECTED
                    /\ ev' = [ev EXCEPT !.hb =
                                IF hb.old_status # CONNECTED
                                THEN notify_status_change(@, hb.old_status, CONNECTED)
                                ELSE @]
                    /\ pc' = [pc EXCEPT !.hb = "sleep"]
                    /\ UNCHANGED drain
       ELSE /\ consecutive_failures' = IF hb.old_status # DISCONNECTED
                                       THEN consecutive_failures + 1
                                       ELSE consecutive_failures
            /\ status' = DISCONNECTED
            /\ ev' = [ev EXCEPT !.hb =
                        IF hb.old_status # DISCONNECTED
                        THEN notify_status_change(@, hb.old_status, DISCONNECTED)
                        ELSE @]
            /\ pc' = [pc EXCEPT !.hb = "sleep"]
            /\ UNCHANGED drain
    /\ UNCHANGED <<message_queue, total_messages_sent, total_messages_failed,
                   heartbeat_running, last_error, retry, send, disp, nextId>>
    /\ last_check_time' = Now
    /\ UNCHANGED info
    /\ UNCHANGED rtVars

\* heartbeat_probe, but every failed probe calls on_status_change
heartbeat_probe_always_notifies(reachable) ==
    /\ pc.hb = "probe"
    /\ ~reachable => consecutive_failures < MaxFailures
    /\ hb' = [hb EXCEPT !.reachable = IF reachable THEN "ok" ELSE "fail"]
    /\ IF reachable
       THEN /\ consecutive_failures' = 0
            /\ IF hb.old_status = DISCONNECTED
               THEN /\ status' = RECONNECTING
                    /\ ev' = [ev EXCEPT !.hb =
                                notify_status_change(@, hb.old_status, RECONNECTING)]
                    /\ drain' = [drain EXCEPT !.hb = NewDrain]
                    /\ pc' = [pc EXCEPT !.hb = "drain_loop"]
               ELSE /\ status' = CONNECTED
                    /\ ev' = [ev EXCEPT !.hb =
                                IF hb.old_status # CONNECTED
                                THEN notify_status_change(@, hb.old_status, CONNECTED)
                                ELSE @]
                    /\ pc' = [pc EXCEPT !.hb = "sleep"]
                    /\ UNCHANGED drain
       ELSE /\ consecutive_failures' = consecutive_failures + 1
            /\ status' = DISCONNECTED
            /\ ev' = [ev EXCEPT !.hb =
                        Append(@, EvStatus(hb.old_status, DISCONNECTED))]
            /\ pc' = [pc EXCEPT !.hb = "sleep"]
            /\ UNCHANGED drain
    /\ UNCHANGED <<message_queue, total_messages_sent, total_messages_failed,
                   heartbeat_running, last_error, retry, send, disp, nextId>>
    /\ last_check_time' = Now
    /\ UNCHANGED info
    /\ UNCHANGED rtVars

\* reachable = self.agent.is_ollama_running(), and the branch on it up to the
\* call of _drain_queue or the sleep
heartbeat_probe(reachable) ==
    /\ pc.hb = "probe"
    /\ ~reachable => consecutive_failures < MaxFailures
    /\ hb' = [hb EXCEPT !.reachable = IF reachable THEN "ok" ELSE "fail"]
    /\ IF reachable
       THEN /\ consecutive_failures' = 0
            /\ IF hb.old_status = DISCONNECTED
               THEN /\ status' = RECONNECTING
                    /\ ev' = [ev EXCEPT !.hb =
                                notify_status_change(@, hb.old_status, RECONNECTING)]
                    /\ drain' = [drain EXCEPT !.hb = NewDrain]
                    /\ pc' = [pc EXCEPT !.hb = "drain_loop"]
               ELSE /\ status' = CONNECTED
                    /\ ev' = [ev EXCEPT !.hb =
                                IF hb.old_status # CONNECTED
                                THEN notify_status_change(@, hb.old_status, CONNECTED)
                                ELSE @]
                    /\ pc' = [pc EXCEPT !.hb = "sleep"]
                    /\ UNCHANGED drain
       ELSE /\ consecutive_failures' = consecutive_failures + 1
            /\ status' = DISCONNECTED
            /\ ev' = [ev EXCEPT !.hb =
                        IF hb.old_status # DISCONNECTED
                        THEN notify_status_change(@, hb.old_status, DISCONNECTED)
                        ELSE @]
            /\ pc' = [pc EXCEPT !.hb = "sleep"]
            /\ UNCHANGED drain
    /\ UNCHANGED <<message_queue, total_messages_sent, total_messages_failed,
                   heartbeat_running, last_error, retry, send, disp, nextId>>
    /\ last_check_time' = Now
    /\ UNCHANGED info
    /\ UNCHANGED rtVars

\* heartbeat_connected, but a drain that stopped on a failed delivery sets
\* the state back to Disconnected
heartbeat_connected_unless_failed ==
    /\ pc.hb = "drain_ret"
    /\ status' = IF drain.hb.failed THEN DISCONNECTED ELSE CONNECTED
    /\ ev' = [ev EXCEPT !.hb =
                IF hb.old_status # status'
                THEN notify_status_change(@, hb.old_status, status') ELSE @]
    /\ pc' = [pc EXCEPT !.hb = "sleep"]
    /\ UNCHANGED <<message_queue, consecutive_failures, total_messages_sent,
                   total_messages_failed, heartbeat_running, last_error, hb, drain,
                   retry, send, disp, nextId>>
    /\ UNCHANGED <<last_check_time, info>>
    /\ UNCHANGED rtVars

\* after _drain_queue(): self.status = self.CONNECTED and the notification
heartbeat_connected ==
    /\ pc.hb = "drain_ret"
    /\ status' = CONNECTED
    /\ ev' = [ev EXCEPT !.hb =
                IF hb.old_status # CONNECTED
                THEN notify_status_change(@, hb.old_status, CONNECTED) ELSE @]
    /\ pc' = [pc EXCEPT !.hb = "sleep"]
    /\ UNCHANGED <<message_queue, consecutive_failures, total_messages_sent,
                   total_messages_failed, heartbeat_running, last_error, hb, drain,
                   retry, send, disp, nextId>>
    /\ UNCHANGED <<last_check_time, info>>
    /\ UNCHANGED rtVars

\* -------------------------------------------------------------- _drain_queue
\* while self.message_queue: msg = self.message_queue.popleft()
drain_loop(t) ==
    /\ pc[t] = "drain_loop"
    /\ IF message_queue # <<>>
       THEN /\ message_queue' = Tail(message_queue)
            /\ drain' = [drain EXCEPT ![t].msg = Head(message_queue)]
            /\ pc' = [pc EXCEPT ![t] = "drain_chat"]
       ELSE /\ pc' = [pc EXCEPT ![t] = "drain_end"]
            /\ UNCHANGED <<message_queue, drain>>
    /\ UNCHANGED <<status, consecutive_failures, total_messages_sent,
                   total_messages_failed, heartbeat_running, last_error, hb, retry,
                   send, disp, ev, nextId>>
    /\ UNCHANGED <<last_check_time, info>>
    /\ UNCHANGED rtVars

\* response = self.agent.chat(msg["prompt"]): the agent answers and clears
\* last_error, or answers and sets it, or raises (except: put back, break)
drain_chat(t, outcome) ==
    /\ pc[t] = "drain_chat"
    /\ IF outcome = "raise"
       THEN /\ message_queue' = DequeAppendLeft(message_queue, drain[t].msg)
            /\ drain' = [drain EXCEPT ![t].att = Append(@, drain[t].msg.prompt),
                                               ![t].failed = TRUE,
                                               ![t].appended = FALSE]
            /\ pc' = [pc EXCEPT ![t] = "drain_end"]
            /\ UNCHANGED last_error
       ELSE /\ last_error' = IF outcome = "ok" THEN None ELSE "error"
            /\ drain' = [drain EXCEPT ![t].att = Append(@, drain[t].msg.prompt)]
            /\ pc' = [pc EXCEPT ![t] = "drain_check"]
            /\ UNCHANGED message_queue
    /\ UNCHANGED <<status, consecutive_failures, total_messages_sent,
                   total_messages_failed, heartbeat_running, hb, retry, send, disp,
                   ev, nextId>>
    /\ UNCHANGED <<last_check_time, info>>
    /\ UNCHANGED rtVars

\* drain_check, but a delivery is counted in total_messages_sent
drain_check_counts_sent(t, raises) ==
    /\ pc[t] = "drain_check"
    /\ raises = "callback" => drain[t].msg.callback
    /\ LET msg == drain[t].msg
           p == msg.prompt
       IN IF last_error = None
          THEN /\ ev' = [ev EXCEPT ![t] =
                           @ \o <<EvDelivered(p, Reply(p))>>
                             \o (IF msg.callback /\ raises # "handler"
                                 THEN <<EvCallback(p, None)>> ELSE <<>>)]
               /\ IF raises = "none"
                  THEN /\ drain' = [drain EXCEPT ![t].delivered = @ + 1,
                                                          ![t].appended = FALSE]
                       /\ pc' = [pc EXCEPT ![t] = "drain_loop"]
                       /\ UNCHANGED message_queue
                  ELSE /\ message_queue' = DequeAppendLeft(message_queue, msg)
                       /\ drain' = [drain EXCEPT ![t].delivered = @ + 1,
                                                          ![t].failed = TRUE,
                                                          ![t].appended = FALSE]
                       /\ pc' = [pc EXCEPT ![t] = "drain_end"]
          ELSE /\ raises = "none"
               /\ message_queue' = DequeAppendLeft(message_queue, msg)
               /\ drain' = [drain EXCEPT ![t].failed = TRUE,
                                                  ![t].appended = FALSE]
               /\ pc' = [pc EXCEPT ![t] = "drain_end"]
               /\ UNCHANGED ev
    /\ total_messages_sent' = total_messages_sent
                               + (IF last_error = None THEN 1 ELSE 0)
    /\ UNCHANGED <<status, consecutive_failures,
                   total_messages_failed, heartbeat_running, last_error, hb, retry,
                   send, disp, nextId>>
    /\ UNCHANGED <<last_check_time, info>>
    /\ UNCHANGED rtVars

\* if not self.agent.last_error: count, on_message_delivered, callback; else
\* put back and break.  raises: the handler or the callback raises ("none":
\* neither), which the except clause answers by putting the entry back
drain_check(t, raises) ==
    /\ pc[t] = "drain_check"
    /\ raises = "callback" => drain[t].msg.callback
    /\ LET msg == drain[t].msg
           p == msg.prompt
       IN IF last_error = None
          THEN /\ ev' = [ev EXCEPT ![t] =
                           @ \o <<EvDelivered(p, Reply(p))>>
                             \o (IF msg.callback /\ raises # "handler"
                                 THEN <<EvCallback(p, None)>> ELSE <<>>)]
               /\ IF raises = "none"
                  THEN /\ drain' = [drain EXCEPT ![t].delivered = @ + 1,
                                                          ![t].appended = FALSE]
                       /\ pc' = [pc EXCEPT ![t] = "drain_loop"]
                       /\ UNCHANGED message_queue
                  ELSE /\ message_queue' = DequeAppendLeft(message_queue, msg)
                       /\ drain' = [drain EXCEPT ![t].delivered = @ + 1,
                                                          ![t].failed = TRUE,
                                                          ![t].appended = FALSE]
                       /\ pc' = [pc EXCEPT ![t] = "drain_end"]
          ELSE /\ raises = "none"
               /\ message_queue' = DequeAppendLeft(message_queue, msg)
               /\ drain' = [drain EXCEPT ![t].failed = TRUE,
                                                  ![t].appended = FALSE]
               /\ pc' = [pc EXCEPT ![t] = "drain_end"]
               /\ UNCHANGED ev
    /\ UNCHANGED <<status, consecutive_failures, total_messages_sent,
                   total_messages_failed, heartbeat_running, last_error, hb, retry,
                   send, disp, nextId>>
    /\ UNCHANGED <<last_check_time, info>>
    /\ UNCHANGED rtVars

\* drain_end, but on_queue_drained is never called
drain_end_silent(t) ==
    /\ pc[t] = "drain_end"
    /\ pc' = [pc EXCEPT ![t] = IF t = "hb" THEN "drain_ret" ELSE "retry_ret"]
    /\ UNCHANGED <<status, message_queue, consecutive_failures, total_messages_sent,
                   total_messages_failed, heartbeat_running, last_error, hb, drain,
                   retry, send, disp, ev, nextId>>
    /\ UNCHANGED <<last_check_time, info>>
    /\ UNCHANGED rtVars

\* drain_end, but on_queue_drained is called with the number of entries the
\* drain has tried, delivered or not
drain_end_counts_attempts(t) ==
    /\ pc[t] = "drain_end"
    /\ ev' = [ev EXCEPT ![t] = IF Len(drain[t].att) > 0
                               THEN Append(@, EvDrained(Len(drain[t].att))) ELSE @]
    /\ pc' = [pc EXCEPT ![t] = IF t = "hb" THEN "drain_ret" ELSE "retry_ret"]
    /\ UNCHANGED <<status, message_queue, consecutive_failures, total_messages_sent,
                   total_messages_failed, heartbeat_running, last_error, hb, drain,
                   retry, send, disp, nextId>>
    /\ UNCHANGED <<last_check_time, info>>
    /\ UNCHANGED rtVars

\* if delivered > 0 and self.on_queue_drained: ...; return to the caller
drain_end(t) ==
    /\ pc[t] = "drain_end"
    /\ ev' = [ev EXCEPT ![t] = IF drain[t].delivered > 0
                               THEN Append(@, EvDrained(drain[t].delivered)) ELSE @]
    /\ pc' = [pc EXCEPT ![t] = IF t = "hb" THEN "drain_ret" ELSE "retry_ret"]
    /\ UNCHANGED <<status, message_queue, consecutive_failures, total_messages_sent,
                   total_messages_failed, heartbeat_running, last_error, hb, drain,
                   retry, send, disp, nextId>>
    /\ UNCHANGED <<last_check_time, info>>
    /\ UNCHANGED rtVars

\* --------------------------------------------------------------- retry_queue
\* if not self.message_queue: return 0; count_before = len(...); _drain_queue()
retry_queue_call ==
    /\ pc.ui = "idle"
    /\ ev' = [ev EXCEPT !.ui = <<>>]
    /\ IF message_queue = <<>>
       THEN /\ retry' = [before |-> <<>>, count_before |-> 0, ret |-> 0]
            /\ drain' = [drain EXCEPT !.ui = NewDrain]
            /\ pc' = [pc EXCEPT !.ui = "returned"]
       ELSE /\ retry' = [before |-> message_queue,
                          count_before |-> Len(message_queue), ret |-> -1]
            /\ drain' = [drain EXCEPT !.ui = NewDrain]
            /\ pc' = [pc EXCEPT !.ui = "drain_loop"]
    /\ UNCHANGED <<status, message_queue, consecutive_failures, total_messages_sent,
                   total_messages_failed, heartbeat_running, last_error, hb, send,
                   disp, nextId>>
    /\ UNCHANGED <<last_check_time, info>>
    /\ UNCHANGED rtVars

\* return count_before - len(self.message_queue)
retry_queue_return ==
    /\ pc.ui = "retry_ret"
    /\ retry' = [retry EXCEPT !.ret = retry.count_before - Len(message_queue)]
    /\ pc' = [pc EXCEPT !.ui = "returned"]
    /\ UNCHANGED <<status, message_queue, consecutive_failures, total_messages_sent,
                   total_messages_failed, heartbeat_running, last_error, hb, drain,
                   send, disp, ev, nextId>>
    /\ UNCHANGED <<last_check_time, info>>
    /\ UNCHANGED rtVars

\* -------------------------------------------------------------- send_message
\* a fresh _dispatch thread; acct counts the increments of the two totals made
\* on account of this dispatch (the one send_message has just made included)
NewDispatch(cb) == [pc |-> "chat", callback |-> cb, events |-> <<>>, acct |-> 1]

\* send_message_call, but it queues in every state other than Connected
send_message_call_unless_connected(sends, callbacks, dispatches) ==
    /\ pc.snd = "idle"
    /\ nextId <= sends
    /\ \E cb \in callbacks :
          IF status # CONNECTED
          THEN /\ send' = [prompt |-> nextId, callback |-> cb, read |-> status,
                           ret |-> "none"]
               /\ pc' = [pc EXCEPT !.snd = "append"]
               /\ UNCHANGED <<total_messages_sent, disp>>
          ELSE /\ total_messages_sent < dispatches
               /\ total_messages_sent' = total_messages_sent + 1
               /\ disp' = disp @@ (nextId :> NewDispatch(cb))
               /\ send' = [prompt |-> nextId, callback |-> cb, read |-> status,
                           ret |-> "sent"]
               /\ pc' = [pc EXCEPT !.snd = "returned"]
    /\ ev' = [ev EXCEPT !.snd = <<>>]
    /\ nextId' = nextId + 1
    /\ UNCHANGED <<status, message_queue, consecutive_failures,
                   total_messages_failed, heartbeat_running, last_error, hb, drain,
                   retry>>
    /\ UNCHANGED <<last_check_time, info>>
    /\ UNCHANGED rtVars

\* if self.status == self.DISCONNECTED: ... else: count, start the thread,
\* return "sent".  sends, callbacks, dispatches: the bounds of the specification
send_message_call(sends, callbacks, dispatches) ==
    /\ pc.snd = "idle"
    /\ nextId <= sends
    /\ \E cb \in callbacks :
          IF status = DISCONNECTED
          THEN /\ send' = [prompt |-> nextId, callback |-> cb, read |-> status,
                           ret |-> "none"]
               /\ pc' = [pc EXCEPT !.snd = "append"]
               /\ UNCHANGED <<total_messages_sent, disp>>
          ELSE /\ total_messages_sent < dispatches
               /\ total_messages_sent' = total_messages_sent + 1
               /\ disp' = disp @@ (nextId :> NewDispatch(cb))
               /\ send' = [prompt |-> nextId, callback |-> cb, read |-> status,
                           ret |-> "sent"]
               /\ pc' = [pc EXCEPT !.snd = "returned"]
    /\ ev' = [ev EXCEPT !.snd = <<>>]
    /\ nextId' = nextId + 1
    /\ UNCHANGED <<status, message_queue, consecutive_failures,
                   total_messages_failed, heartbeat_running, last_error, hb, drain,
                   retry>>
    /\ UNCHANGED <<last_check_time, info>>
    /\ UNCHANGED rtVars

\* self.message_queue.append(...); on_message_queued; return "queued"
send_message_append ==
    /\ pc.snd = "append"
    /\ message_queue' = DequeAppend(message_queue,
                            [prompt |-> send.prompt, callback |-> send.callback])
    /\ ev' = [ev EXCEPT !.snd = <<EvQueued(send.prompt, Len(message_queue'))>>]
    /\ send' = [send EXCEPT !.ret = "queued"]
    /\ pc' = [pc EXCEPT !.snd = "returned"]
    /\ drain' = [t \in Drainers |->
                   IF pc[t] \in {"drain_chat", "drain_check"}
                   THEN [drain[t] EXCEPT !.appended = TRUE] ELSE drain[t]]
    /\ UNCHANGED <<status, consecutive_failures, total_messages_sent,
                   total_messages_failed, heartbeat_running, last_error, hb,
                   retry, disp, nextId>>
    /\ UNCHANGED <<last_check_time, info>>
    /\ UNCHANGED rtVars

\* ----------------------------------------------------------------- _dispatch
\* the except clause: count a failure, on_message_failed, callback(None, str(e))
dispatch_except(d, p) ==
    [d EXCEPT !.pc = "done",
              !.acct = @ + 1,
              !.events = @ \o <<EvFailed(p)>>
                           \o (IF d.callback THEN <<EvCallback(p, "exception")>>
                               ELSE <<>>)]

\* dispatch_chat, but a chat that raises sets the state to Disconnected
dispatch_chat_disconnects(p, outcome) ==
    /\ p \in DOMAIN disp
    /\ disp[p].pc = "chat"
    /\ IF outcome = "raise"
       THEN /\ total_messages_failed' = total_messages_failed + 1
            /\ disp' = [disp EXCEPT ![p] = dispatch_except(@, p)]
            /\ UNCHANGED last_error
       ELSE /\ last_error' = IF outcome = "ok" THEN None ELSE "error"
            /\ disp' = [disp EXCEPT ![p].pc = "check"]
            /\ UNCHANGED total_messages_failed
    /\ status' = IF outcome = "raise" THEN DISCONNECTED ELSE status
    /\ UNCHANGED <<message_queue, consecutive_failures, total_messages_sent,
                   heartbeat_running, pc, hb, drain, retry, send, ev, nextId>>
    /\ UNCHANGED <<last_check_time, info>>
    /\ UNCHANGED rtVars

\* response = self.agent.chat(prompt)
dispatch_chat(p, outcome) ==
    /\ p \in DOMAIN disp
    /\ disp[p].pc = "chat"
    /\ IF outcome = "raise"
       THEN /\ total_messages_failed' = total_messages_failed + 1
            /\ disp' = [disp EXCEPT ![p] = dispatch_except(@, p)]
            /\ UNCHANGED last_error
       ELSE /\ last_error' = IF outcome = "ok" THEN None ELSE "error"
            /\ disp' = [disp EXCEPT ![p].pc = "check"]
            /\ UNCHANGED total_messages_failed
    /\ UNCHANGED <<status, message_queue, consecutive_failures, total_messages_sent,
                   heartbeat_running, pc, hb, drain, retry, send, ev, nextId>>
    /\ UNCHANGED <<last_check_time, info>>
    /\ UNCHANGED rtVars

\* the body of the try after chat returned: on self.agent.last_error the
\* failure branch, else the delivery branch; raises as in drain_check
dispatch_check(p, raises) ==
    /\ p \in DOMAIN disp
    /\ disp[p].pc = "check"
    /\ raises = "callback" => disp[p].callback
    /\ LET d == disp[p]
           err == last_error # None
           tried == [d EXCEPT
                       !.pc = "done",
                       !.acct = IF err THEN @ + 1 ELSE @,
                       !.events = @ \o <<IF err THEN EvFailed(p)
                                         ELSE EvDelivered(p, Reply(p))>>
                                    \o (IF d.callback /\ raises # "handler"
                                        THEN <<EvCallback(p, last_error)>>
                                        ELSE <<>>)]
       IN /\ disp' = [disp EXCEPT ![p] = IF raises = "none" THEN tried
                                         ELSE dispatch_except(tried, p)]
          /\ total_messages_failed' = total_messages_failed
                                      + (IF err THEN 1 ELSE 0)
                                      + (IF raises = "none" THEN 0 ELSE 1)
    /\ UNCHANGED <<status, message_queue, consecutive_failures, total_messages_sent,
                   heartbeat_running, last_error, pc, hb, drain, retry, send, ev,
                   nextId>>
    /\ UNCHANGED <<last_check_time, info>>
    /\ UNCHANGED rtVars

\* the thread ends
dispatch_exit(p) ==
    /\ p \in DOMAIN disp
    /\ disp[p].pc = "done"
    /\ disp' = [q \in DOMAIN disp \ {p} |-> disp[q]]
    /\ UNCHANGED <<status, message_queue, consecutive_failures, total_messages_sent,
                   total_messages_failed, heartbeat_running, last_error, pc, hb,
                   drain, retry, send, ev, nextId>>
    /\ UNCHANGED <<last_check_time, info>>
    /\ UNCHANGED rtVars

\* ------------------------------------------------- CustomTerminal._sz_call
\* The thread sz_send_message starts for a prompt: Disconnected, it calls
\* send_message (the thread "snd"); otherwise it calls the agent itself and
\* counts the outcome in the totals of the bridge.  Such a thread is kept in
\* disp, at the positions "sz_chat" and "sz_check".
NewSzCall == [pc |-> "sz_chat", callback |-> FALSE, events |-> <<>>, acct |-> 0]

\* if self.bridge.status == CommBridge.DISCONNECTED: ...; (else) up to the
\* call of self.subzero.chat(prompt)
sz_call(sends) ==
    /\ nextId <= sends
    /\ status # DISCONNECTED
    /\ disp' = disp @@ (nextId :> NewSzCall)
    /\ nextId' = nextId + 1
    /\ UNCHANGED <<status, message_queue, consecutive_failures, total_messages_sent,
                   total_messages_failed, heartbeat_running, last_error, pc, hb,
                   drain, retry, send, ev>>
    /\ UNCHANGED <<last_check_time, info>>
    /\ UNCHANGED rtVars

\* response = self.subzero.chat(prompt); the except clause counts a failure
sz_call_chat(p, outcome) ==
    /\ p \in DOMAIN disp
    /\ disp[p].pc = "sz_chat"
    /\ IF outcome = "raise"
       THEN /\ total_messages_failed' = total_messages_failed + 1
            /\ disp' = [disp EXCEPT ![p].pc = "done", ![p].acct = @ + 1]
            /\ UNCHANGED last_error
       ELSE /\ last_error' = IF outcome = "ok" THEN None ELSE "error"
            /\ disp' = [disp EXCEPT ![p].pc = "sz_check"]
            /\ UNCHANGED total_messages_failed
    /\ UNCHANGED <<status, message_queue, consecutive_failures, total_messages_sent,
                   heartbeat_running, pc, hb, drain, retry, send, ev, nextId>>
    /\ UNCHANGED <<last_check_time, info>>
    /\ UNCHANGED rtVars

\* if self.subzero.last_error: total_messages_failed += 1, else:
\* total_messages_sent += 1
sz_call_check(p) ==
    /\ p \in DOMAIN disp
    /\ disp[p].pc = "sz_check"
    /\ IF last_error # None
       THEN /\ total_messages_failed' = total_messages_failed + 1
            /\ UNCHANGED total_messages_sent
       ELSE /\ total_messages_sent' = total_messages_sent + 1
            /\ UNCHANGED total_messages_failed
    /\ disp' = [disp EXCEPT ![p].pc = "done", ![p].acct = @ + 1]
    /\ UNCHANGED <<status, message_queue, consecutive_failures, heartbeat_running,
                   last_error, pc, hb, drain, retry, send, ev, nextId>>
    /\ UNCHANGED <<last_check_time, info>>
    /\ UNCHANGED rtVars

\* ----------------------------------------------------------- get_status_info
\* last_check_time.strftime("%H:%M:%S"): a time of day
Strftime(t) == "HH:MM:SS"

\* get_status_info, but total_sent reports the failed dispatches too
get_status_info_sent_and_failed ==
    /\ pc.ui = "idle"
    /\ info' = [status |-> status,
                last_check |-> IF last_check_time # None
                               THEN Strftime(last_check_time) ELSE "never",
                consecutive_failures |-> consecutive_failures,
                queued_messages |-> Len(message_queue),
                total_sent |-> total_messages_sent + total_messages_failed,
                total_failed |-> total_messages_failed,
                model |-> "qwen2.5:3b",
                heartbeat_interval |-> "5s"]
    /\ pc' = [pc EXCEPT !.ui = "info"]
    /\ UNCHANGED <<status, last_check_time, message_queue, consecutive_failures,
                   total_messages_sent, total_messages_failed, heartbeat_running,
                   last_error, hb, drain, retry, send, disp, ev, nextId>>
    /\ UNCHANGED rtVars

\* return {"status": self.status, "last_check": ..., ...}
get_status_info ==
    /\ pc.ui = "idle"
    /\ info' = [status |-> status,
                last_check |-> IF last_check_time # None
                               THEN Strftime(last_check_time) ELSE "never",
                consecutive_failures |-> consecutive_failures,
                queued_messages |-> Len(message_queue),
                total_sent |-> total_messages_sent,
                total_failed |-> total_messages_failed,
                model |-> "qwen2.5:3b",
                heartbeat_interval |-> "5s"]
    /\ pc' = [pc EXCEPT !.ui = "info"]
    /\ UNCHANGED <<status, last_check_time, message_queue, consecutive_failures,
                   total_messages_sent, total_messages_failed, heartbeat_running,
                   last_error, hb, drain, retry, send, disp, ev, nextId>>
    /\ UNCHANGED rtVars

\* the caller of get_status_info has shown the dict and dropped it
status_shown ==
    /\ pc.ui = "info"
    /\ info' = NoInfo
    /\ pc' = [pc EXCEPT !.ui = "idle"]
    /\ UNCHANGED <<status, last_check_time, message_queue, consecutive_failures,
                   total_messages_sent, total_messages_failed, heartbeat_running,
                   last_error, hb, drain, retry, send, disp, ev, nextId>>
    /\ UNCHANGED rtVars

\* ------------------------------------------------------------------- callers
\* the caller of retry_queue ("ui") or send_message ("snd") has the result
\* and goes on; the locals of the call are gone
caller_resume(t) ==
    /\ pc[t] = "returned"
    /\ pc' = [pc EXCEPT ![t] = "idle"]
    /\ ev' = [ev EXCEPT ![t] = <<>>]
    /\ IF t = "ui"
       THEN /\ retry' = NoRetry
            /\ drain' = [drain EXCEPT !.ui = NewDrain]
            /\ UNCHANGED send
       ELSE /\ send' = NoSend
            /\ UNCHANGED <<retry, drain>>
    /\ UNCHANGED <<status, message_queue, consecutive_failures, total_messages_sent,
                   total_messages_failed, heartbeat_running, last_error, hb, disp,
                   nextId>>
    /\ UNCHANGED <<last_check_time, info>>
    /\ UNCHANGED rtVars

\* ------------------------------------------- handlers called outside a try
\* The calls of on_message_queued (send_message), of on_status_change
\* (_heartbeat_loop) and of on_queue_drained (_drain_queue) are in no try
\* block: a handler that raises ends the call, or the heartbeat thread, with
\* its exception (position "raised").  The actions above are the steps in
\* which these handlers return; the actions below are those in which the
\* handler raises.

\* send_message: the append, and on_message_queued raises
send_message_append_raises ==
    /\ pc.snd = "append"
    /\ message_queue' = DequeAppend(message_queue,
                            [prompt |-> send.prompt, callback |-> send.callback])
    /\ ev' = [ev EXCEPT !.snd = <<EvQueued(send.prompt, Len(message_queue'))>>]
    /\ pc' = [pc EXCEPT !.snd = "raised"]
    /\ drain' = [t \in Drainers |->
                   IF pc[t] \in {"drain_chat", "drain_check"}
                   THEN [drain[t] EXCEPT !.appended = TRUE] ELSE drain[t]]
    /\ UNCHANGED <<status, consecutive_failures, total_messages_sent,
                   total_messages_failed, heartbeat_running, last_error, hb,
                   retry, send, disp, nextId>>
    /\ UNCHANGED <<last_check_time, info>>
    /\ UNCHANGED rtVars

\* _heartbeat_loop: the probe and the assignment of self.status as in
\* heartbeat_probe, and on_status_change, called for the change, raises: the
\* thread ends, with self._heartbeat_running still set
heartbeat_probe_raises(reachable) ==
    /\ pc.hb = "probe"
    /\ ~reachable => consecutive_failures < MaxFailures
    /\ hb.old_status # (IF reachable THEN CONNECTED ELSE DISCONNECTED)
    /\ hb' = [hb EXCEPT !.reachable = IF reachable THEN "ok" ELSE "fail"]
    /\ consecutive_failures' = IF reachable THEN 0 ELSE consecutive_failures + 1
    /\ LET new == IF ~reachable THEN DISCONNECTED
                  ELSE IF hb.old_status = DISCONNECTED THEN RECONNECTING
                  ELSE CONNECTED
       IN /\ status' = new
          /\ ev' = [ev EXCEPT !.hb = Append(@, EvStatus(hb.old_status, new))]
    /\ pc' = [pc EXCEPT !.hb = "raised"]
    /\ UNCHANGED <<message_queue, total_messages_sent, total_messages_failed,
                   heartbeat_running, last_error, drain, retry, send, disp, nextId>>
    /\ last_check_time' = Now
    /\ UNCHANGED info
    /\ UNCHANGED rtVars

\* _heartbeat_loop after the drain: self.status = self.CONNECTED, and
\* on_status_change raises
heartbeat_connected_raises ==
    /\ pc.hb = "drain_ret"
    /\ hb.old_status # CONNECTED
    /\ status' = CONNECTED
    /\ ev' = [ev EXCEPT !.hb = Append(@, EvStatus(hb.old_status, CONNECTED))]
    /\ pc' = [pc EXCEPT !.hb = "raised"]
    /\ UNCHANGED <<message_queue, consecutive_failures, total_messages_sent,
                   total_messages_failed, heartbeat_running, last_error, hb, drain,
                   retry, send, disp, nextId>>
    /\ UNCHANGED <<last_check_time, info>>
    /\ UNCHANGED rtVars

\* _drain_queue: on_queue_drained raises, out of _drain_queue and out of its
\* caller, retry_queue or _heartbeat_loop
drain_end_raises(t) ==
    /\ pc[t] = "drain_end"
    /\ drain[t].delivered > 0
    /\ ev' = [ev EXCEPT ![t] = Append(@, EvDrained(drain[t].delivered))]
    /\ pc' = [pc EXCEPT ![t] = "raised"]
    /\ UNCHANGED <<status, message_queue, consecutive_failures, total_messages_sent,
                   total_messages_failed, heartbeat_running, last_error, hb, drain,
                   retry, send, disp, nextId>>
    /\ UNCHANGED <<last_check_time, info>>
    /\ UNCHANGED rtVars

\* the caller of retry_queue or send_message has the exception; the locals
\* of the call are gone
caller_unwinds(t) ==
    /\ pc[t] = "raised"
    /\ t \in {"ui", "snd"}
    /\ pc' = [pc EXCEPT ![t] = "idle"]
    /\ ev' = [ev EXCEPT ![t] = <<>>]
    /\ IF t = "ui"
       THEN /\ retry' = NoRetry
            /\ drain' = [drain EXCEPT !.ui = NewDrain]
            /\ UNCHANGED send
       ELSE /\ send' = NoSend
            /\ UNCHANGED <<retry, drain>>
    /\ UNCHANGED <<status, message_queue, consecutive_failures, total_messages_sent,
                   total_messages_failed, heartbeat_running, last_error, hb, disp,
                   nextId>>
    /\ UNCHANGED <<last_check_time, info>>
    /\ UNCHANGED rtVars

Outcomes == {"ok", "error", "raise"}
Raises == {"none", "handler", "callback"}

\* ------------------------------------------- a second _heartbeat_loop thread
\* start_heartbeat starts a thread at every call that finds
\* _heartbeat_running False, also when the thread of an earlier call has not
\* ended (it sleeps, or has not reached its while test).  The second thread
\* runs the same loop; a pass of it is taken in two steps, the while test
\* with the read of self.status, and the rest.  No second thread yet:
NoHeartbeat2 == [pc |-> "none", old_status |-> CHECKING, events |-> <<>>]

\* start_heartbeat, called by the thread "ui" while the first thread has not
\* ended
start_heartbeat_second ==
    /\ pc.ui = "idle"
    /\ ~heartbeat_running
    /\ pc.hb # "none"
    /\ hb2.pc = "none"
    /\ heartbeat_running' = TRUE
    /\ hb2' = [hb2 EXCEPT !.pc = "top"]
    /\ UNCHANGED <<status, last_check_time, info, message_queue,
                   consecutive_failures, total_messages_sent,
                   total_messages_failed, last_error, pc, hb, drain, retry, send,
                   disp, ev, nextId>>
    /\ UNCHANGED <<auto_trade, execution_log, handler_calls, rt, ra, parsed,
                   formatted, scan, og>>

\* while self._heartbeat_running: old_status = self.status; or the loop ends
heartbeat2_top ==
    /\ hb2.pc \in {"top", "sleep"}
    /\ hb2' = IF heartbeat_running
              THEN [pc |-> "probe", old_status |-> status, events |-> <<>>]
              ELSE [hb2 EXCEPT !.pc = "none"]
    /\ UNCHANGED bridgeVars
    /\ UNCHANGED <<auto_trade, execution_log, handler_calls, rt, ra, parsed,
                   formatted, scan, og>>

\* the probe and what follows it, up to time.sleep; the queue is empty, and
\* _drain_queue, if called, returns at once
heartbeat2_probe(reachable) ==
    /\ hb2.pc = "probe"
    /\ message_queue = <<>>
    /\ ~reachable => consecutive_failures < MaxFailures
    /\ last_check_time' = Now
    /\ IF reachable
       THEN /\ consecutive_failures' = 0
            /\ status' = CONNECTED
            /\ hb2' = [hb2 EXCEPT
                          !.pc = "sleep",
                          !.events =
                             IF hb2.old_status = DISCONNECTED
                             THEN notify_status_change(
                                     notify_status_change(@, hb2.old_status,
                                                          RECONNECTING),
                                     hb2.old_status, CONNECTED)
                             ELSE notify_status_change(@, hb2.old_status, CONNECTED)]
       ELSE /\ consecutive_failures' = consecutive_failures + 1
            /\ status' = DISCONNECTED
            /\ hb2' = [hb2 EXCEPT
                          !.pc = "sleep",
                          !.events = notify_status_change(@, hb2.old_status,
                                                          DISCONNECTED)]
    /\ UNCHANGED <<info, message_queue, total_messages_sent,
                   total_messages_failed, heartbeat_running, last_error, pc, hb,
                   drain, retry, send, disp, ev, nextId>>
    /\ UNCHANGED <<auto_trade, execution_log, handler_calls, rt, ra, parsed,
                   formatted, scan, og>>

\* =============================================================== ToolRuntime
TIER_AUTO == "auto"
TIER_LOG == "log"
TIER_CONFIRM == "confirm"

TOOL_TIERS ==
    [run_command |-> TIER_LOG, run_python |-> TIER_LOG, file_read |-> TIER_AUTO,
     file_write |-> TIER_LOG, file_append |-> TIER_LOG, file_list |-> TIER_AUTO,
     file_delete |-> TIER_CONFIRM, web_search |-> TIER_AUTO, web_get |-> TIER_AUTO,
     web_post |-> TIER_CONFIRM, browser_open |-> TIER_LOG,
     browser_click |-> TIER_LOG, browser_type |-> TIER_LOG,
     browser_read |-> TIER_AUTO, browser_screenshot |-> TIER_AUTO,
     browser_wait |-> TIER_AUTO, browser_close |-> TIER_LOG,
     clipboard_copy |-> TIER_LOG, clipboard_paste |-> TIER_AUTO,
     open_app |-> TIER_CONFIRM, trade_quote |-> TIER_AUTO,
     trade_buy |-> TIER_CONFIRM, trade_sell |-> TIER_CONFIRM,
     trade_positions |-> TIER_AUTO, trade_portfolio |-> TIER_AUTO,
     trade_history |-> TIER_AUTO, trade_cancel |-> TIER_CONFIRM,
     trade_watchlist |-> TIER_AUTO, deploy_to_usb |-> TIER_LOG,
     download_subzero |-> TIER_LOG, detect_usb |-> TIER_AUTO]

\* the keys of the registry TOOLS
TOOLS ==
    {"run_command", "run_python", "file_read", "file_write", "file_append",
     "file_list", "file_delete", "web_search", "web_get", "web_post",
     "browser_open", "browser_click", "browser_type", "browser_read",
     "browser_screenshot", "browser_wait", "browser_close", "clipboard_copy",
     "clipboard_paste", "open_app", "trade_quote", "trade_buy", "trade_sell",
     "trade_positions", "trade_portfolio", "trade_history", "trade_cancel",
     "trade_watchlist", "deploy_to_usb", "download_subzero", "detect_usb"}

\* TOOL_TIERS.get(name, TIER_CONFIRM)
TierOf(name) ==
    IF name \in DOMAIN TOOL_TIERS THEN TOOL_TIERS[name] ELSE TIER_CONFIRM

\* call.name.startswith("trade_") and call.name in ("trade_buy", ...)
IsTradeMutation(name) == name \in {"trade_buy", "trade_sell", "trade_cancel"}

\* the dataclass ToolResult, as its constructor fills it
ToolResult(success, output, tool_name, needs_confirm) ==
    [success |-> success, output |-> output, tool_name |-> tool_name,
     needs_confirm |-> needs_confirm]

NoResult == ToolResult(FALSE, "", "", FALSE)

\* ToolResult(False, "", tool_name=call.name, needs_confirm=True, output=...)
\* gives output twice, by position and by keyword: the constructor raises
\* TypeError and execute returns nothing
ConfirmationNeeded(name) ==
    [outcome |-> "TypeError", result |-> NoResult]

\* Gate, but a name the registry lacks goes on to the tier check
GateNoRegistryCheck(name, skip_confirm, auto) ==
    IF TierOf(name) = TIER_CONFIRM /\ ~skip_confirm
    THEN IF IsTradeMutation(name)
         THEN IF ~auto THEN ConfirmationNeeded(name)
              ELSE [outcome |-> "call", result |-> NoResult]
         ELSE ConfirmationNeeded(name)
    ELSE [outcome |-> "call", result |-> NoResult]

\* what execute does with a call, short of calling the handler: "call" when
\* it goes on to the handler
Gate(name, skip_confirm, auto) ==
    IF name \notin TOOLS
    THEN [outcome |-> "return",
          result |-> ToolResult(FALSE, "Unknown tool: " \o name, name, FALSE)]
    ELSE IF TierOf(name) = TIER_CONFIRM /\ ~skip_confirm
         THEN IF IsTradeMutation(name)
              THEN IF ~auto THEN ConfirmationNeeded(name)
                   ELSE [outcome |-> "call", result |-> NoResult]
              ELSE ConfirmationNeeded(name)
         ELSE [outcome |-> "call", result |-> NoResult]

\* the tool names and parameters the calls are drawn from: a tool of every
\* tier, the three trade mutations, a trade tool that is none, and a name the
\* registry does not have
CallNames ==
    {"file_read", "run_command", "file_delete", "web_post", "open_app",
     "trade_buy", "trade_sell", "trade_cancel", "trade_quote", "does_not_exist"}
CallParams == {"", "path=x"}

\* --------------------------------------------------------- parse_tool_calls
\* Text is a string; At(s, i) is its i-th character, From(s, i) the rest of
\* it from the i-th on
At(s, i) == SubSeq(s, i, i)
From(s, i) == SubSeq(s, i, Len(s))

\* the characters str.strip, str.split(None) and \s take for whitespace
Whitespace == {" ", "\t", "\r", "\n"}

\* the characters \w matches
WordChars ==
    {"a", "b", "c", "d", "e", "f", "g", "h", "i", "j", "k", "l", "m", "n", "o",
     "p", "q", "r", "s", "t", "u", "v", "w", "x", "y", "z", "_", "0", "1", "2",
     "3", "4", "5", "6", "7", "8", "9"}

\* how many characters of s from the i-th on are whitespace (in is TRUE), or
\* are none (in is FALSE), or are word characters
RECURSIVE SpaceRun(_, _, _)
SpaceRun(s, i, in) ==
    IF i <= Len(s) /\ ((At(s, i) \in Whitespace) <=> in)
    THEN 1 + SpaceRun(s, i + 1, in) ELSE 0

RECURSIVE WordRun(_, _)
WordRun(s, i) ==
    IF i <= Len(s) /\ At(s, i) \in WordChars THEN 1 + WordRun(s, i + 1) ELSE 0

\* str.strip()
RECURSIVE RStrip(_)
RStrip(s) ==
    IF Len(s) > 0 /\ At(s, Len(s)) \in Whitespace
    THEN RStrip(SubSeq(s, 1, Len(s) - 1)) ELSE s

LStrip(s) == From(s, SpaceRun(s, 1, TRUE) + 1)
Strip(s) == RStrip(LStrip(s))

\* str.startswith(prefix)
StartsWith(s, prefix) ==
    Len(s) >= Len(prefix) /\ SubSeq(s, 1, Len(prefix)) = prefix

\* str.split("\n"): the lines of text, from its i-th character on, the line
\* begun being cur
RECURSIVE SplitLines(_, _, _)
SplitLines(text, i, cur) ==
    IF i > Len(text) THEN <<cur>>
    ELSE IF At(text, i) = "\n" THEN <<cur>> \o SplitLines(text, i + 1, "")
    ELSE SplitLines(text, i + 1, cur \o At(text, i))

\* "\n".join(lines)
RECURSIVE JoinLines(_)
JoinLines(lines) ==
    IF Len(lines) = 0 THEN ""
    ELSE IF Len(lines) = 1 THEN lines[1]
    ELSE lines[1] \o "\n" \o JoinLines(Tail(lines))

\* str.replace(old, new), from the i-th character on
RECURSIVE Replace(_, _, _, _)
Replace(s, i, old, new) ==
    IF i > Len(s) THEN ""
    ELSE IF StartsWith(From(s, i), old)
    THEN new \o Replace(s, i + Len(old), old, new)
    ELSE At(s, i) \o Replace(s, i + 1, old, new)

\* value.replace("\\n", "\n").replace("\\t", "\t").replace('\\"', '"')
Unescape(value) ==
    Replace(Replace(Replace(value, 1, "\\n", "\n"), 1, "\\t", "\t"), 1, "\\\"", "\"")

\* (?:[^q\\]|\\.)*q from the i-th character of s on: the position of the
\* closing quote q, or 0 if the pattern does not match
RECURSIVE QuoteEnd(_, _, _)
QuoteEnd(s, i, q) ==
    IF i > Len(s) THEN 0
    ELSE IF At(s, i) = q THEN i
    ELSE IF At(s, i) = "\\"
    THEN IF i + 1 <= Len(s) /\ At(s, i + 1) # "\n" THEN QuoteEnd(s, i + 2, q) ELSE 0
    ELSE QuoteEnd(s, i + 1, q)

NoMatch == [ok |-> FALSE, key |-> "", value |-> "", end |-> 0]

\* MatchAt, but the pattern is (\w+)\s*=\s*(\S+): no quoted values
MatchAtBare(s, p) ==
    LET a == p + WordRun(s, p)
        b == a + SpaceRun(s, a, TRUE)
        c == b + 1 + SpaceRun(s, b + 1, TRUE)
        n == SpaceRun(s, c, FALSE)
    IN IF a = p \/ b > Len(s) \/ At(s, b) # "=" \/ c > Len(s) THEN NoMatch
       ELSE [ok |-> TRUE, key |-> SubSeq(s, p, a - 1),
             value |-> SubSeq(s, c, c + n - 1), end |-> c + n]

\* the match of (\w+)\s*=\s*(?:"(...)"|'(...)'|(\S+)) that begins at the
\* p-th character of s: its key, its value and where it ends
MatchAt(s, p) ==
    LET a == p + WordRun(s, p)
        b == a + SpaceRun(s, a, TRUE)
        c == b + 1 + SpaceRun(s, b + 1, TRUE)
        key == SubSeq(s, p, a - 1)
        dq == QuoteEnd(s, c + 1, "\"")
        sq == QuoteEnd(s, c + 1, "'")
        n == SpaceRun(s, c, FALSE)
    IN IF a = p \/ b > Len(s) \/ At(s, b) # "=" \/ c > Len(s) THEN NoMatch
       ELSE IF At(s, c) = "\"" /\ dq > 0
       THEN [ok |-> TRUE, key |-> key, value |-> SubSeq(s, c + 1, dq - 1),
             end |-> dq + 1]
       ELSE IF At(s, c) = "'" /\ sq > 0
       THEN [ok |-> TRUE, key |-> key, value |-> SubSeq(s, c + 1, sq - 1),
             end |-> sq + 1]
       ELSE [ok |-> TRUE, key |-> key, value |-> SubSeq(s, c, c + n - 1),
             end |-> c + n]

\* params[key] = value
SetParam(params, key, value) ==
    [k \in DOMAIN params \cup {key} |-> IF k = key THEN value ELSE params[k]]

\* for m in re.finditer(pattern, param_str), from the p-th character on
RECURSIVE FindIter(_, _, _)
FindIter(s, p, params) ==
    IF p > Len(s) THEN params
    ELSE LET m == MatchAt(s, p)
         IN IF m.ok
            THEN FindIter(s, m.end, SetParam(params, m.key, Unescape(m.value)))
            ELSE FindIter(s, p + 1, params)

\* _parse_params(param_str): a dict, here a function from keys to values
NoParams == [k \in {} |-> ""]
parse_params(param_str) == FindIter(param_str, 1, NoParams)

\* the dataclass ToolCall
ToolCall(name, params, raw) == [name |-> name, params |-> params, raw |-> raw]

\* the fence of a content block, three grave accents; a string of this
\* module cannot hold a grave accent, and "#" stands for it in every text
Fence == "###"

\* BlockEnd, but a line closes the block only if the fence is its very start
RECURSIVE BlockEndUnstripped(_, _)
BlockEndUnstripped(lines, i) ==
    IF i > Len(lines) \/ StartsWith(lines[i], Fence) THEN i
    ELSE BlockEndUnstripped(lines, i + 1)

\* the index of the first of lines, from the i-th on, that closes a content
\* block; Len(lines) + 1 if none does
RECURSIVE BlockEnd(_, _)
BlockEnd(lines, i) ==
    IF i > Len(lines) \/ StartsWith(Strip(lines[i]), Fence) THEN i
    ELSE BlockEnd(lines, i + 1)

\* the while loop of parse_tool_calls, at line i (counted from 1)
RECURSIVE ParseLines(_, _, _)
ParseLines(lines, i, calls) ==
    IF i > Len(lines) THEN calls
    ELSE LET line == Strip(lines[i])
             rest == Strip(From(line, 7))
             n == SpaceRun(rest, 1, FALSE)
             name == SubSeq(rest, 1, n)
             param_str == LStrip(From(rest, n + 1))
             block == i + 1 <= Len(lines) /\ StartsWith(Strip(lines[i + 1]), Fence)
             close == BlockEnd(lines, i + 2)
             params == parse_params(param_str)
         IN IF ~StartsWith(line, "@tool ") \/ Len(rest) = 0
            THEN ParseLines(lines, i + 1, calls)
            ELSE IF block
            THEN ParseLines(lines, close + 1,
                     Append(calls,
                         ToolCall(name,
                             SetParam(params, "content",
                                 JoinLines(SubSeq(lines, i + 2, close - 1))),
                             line)))
            ELSE ParseLines(lines, i + 1, Append(calls, ToolCall(name, params, line)))

\* parse_tool_calls(text)
parse_tool_calls(text) == ParseLines(SplitLines(text, 1, ""), 1, <<>>)

\* no parse yet
NoParse == [text |-> "", calls |-> <<>>, done |-> FALSE]

\* ToolRuntime.parse(text), of the text given
parse ==
    /\ ~parsed.done
    /\ parsed' = [parsed EXCEPT !.calls = parse_tool_calls(parsed.text),
                                !.done = TRUE]
    /\ UNCHANGED <<auto_trade, execution_log, handler_calls, rt, ra, formatted,
                   scan, og, hb2, bridgeVars>>

\* ------------------------------------------- parse_tool_calls, step by step
\* no parse_tool_calls call under way.  The locals of a call: text, lines, i
\* (counted from 1), calls; in the inner loop (block is TRUE) block_lines, and
\* name, param_str and raw_line of the directive before it; ret is the list
\* returned, and returned says that the call has returned
NoScan ==
    [text |-> "", lines |-> <<>>, i |-> 1, calls |-> <<>>, block |-> FALSE,
     block_lines |-> <<>>, name |-> "", param_str |-> "", raw_line |-> "",
     ret |-> <<>>, returned |-> FALSE]

\* one pass of the outer while loop, up to the inner loop if the pass has one
scan_line ==
    /\ ~scan.returned /\ ~scan.block
    /\ scan.i <= Len(scan.lines)
    /\ LET i == scan.i
           lines == scan.lines
           line == Strip(lines[i])
           rest == Strip(From(line, 7))
           n == SpaceRun(rest, 1, FALSE)
           name == SubSeq(rest, 1, n)
           param_str == LStrip(From(rest, n + 1))
       IN IF ~StartsWith(line, "@tool ") \/ Len(rest) = 0
          THEN scan' = [scan EXCEPT !.i = i + 1]
          ELSE IF i + 1 <= Len(lines) /\ StartsWith(Strip(lines[i + 1]), Fence)
          THEN scan' = [scan EXCEPT !.i = i + 2, !.block = TRUE,
                                    !.block_lines = <<>>, !.name = name,
                                    !.param_str = param_str, !.raw_line = line]
          ELSE scan' = [scan EXCEPT
                           !.i = i + 1,
                           !.calls = Append(@, ToolCall(name,
                                                parse_params(param_str), line))]
    /\ UNCHANGED <<auto_trade, execution_log, handler_calls, rt, ra, parsed,
                   formatted, og, hb2, bridgeVars>>

\* scan_block, but a pass of the inner loop leaves i as it is
scan_block_keeps_index ==
    /\ ~scan.returned /\ scan.block
    /\ LET i == scan.i
           lines == scan.lines
       IN IF i <= Len(lines) /\ ~StartsWith(Strip(lines[i]), Fence)
          THEN scan' = [scan EXCEPT !.block_lines = Append(@, lines[i])]
          ELSE scan' = [scan EXCEPT
                           !.i = i + 1, !.block = FALSE,
                           !.calls = Append(@, ToolCall(scan.name,
                                        SetParam(parse_params(scan.param_str),
                                            "content", JoinLines(scan.block_lines)),
                                        scan.raw_line))]
    /\ UNCHANGED <<auto_trade, execution_log, handler_calls, rt, ra, parsed,
                   formatted, og, hb2, bridgeVars>>

\* one pass of the inner while loop, or, its condition false, the rest of the
\* outer pass: the call is appended with its content, and i += 1
scan_block ==
    /\ ~scan.returned /\ scan.block
    /\ LET i == scan.i
           lines == scan.lines
       IN IF i <= Len(lines) /\ ~StartsWith(Strip(lines[i]), Fence)
          THEN scan' = [scan EXCEPT !.i = i + 1,
                                    !.block_lines = Append(@, lines[i])]
          ELSE scan' = [scan EXCEPT
                           !.i = i + 1, !.block = FALSE,
                           !.calls = Append(@, ToolCall(scan.name,
                                        SetParam(parse_params(scan.param_str),
                                            "content", JoinLines(scan.block_lines)),
                                        scan.raw_line))]
    /\ UNCHANGED <<auto_trade, execution_log, handler_calls, rt, ra, parsed,
                   formatted, og, hb2, bridgeVars>>

\* the outer condition false: return calls
scan_return ==
    /\ ~scan.returned /\ ~scan.block
    /\ scan.i > Len(scan.lines)
    /\ scan' = [scan EXCEPT !.ret = scan.calls, !.returned = TRUE]
    /\ UNCHANGED <<auto_trade, execution_log, handler_calls, rt, ra, parsed,
                   formatted, og, hb2, bridgeVars>>

\* ------------------------------------------ ollama_generate (sz_telegram_fixed)
MAX_RETRIES == 3

\* what an attempt comes to: a non-empty response, an empty one,
\* HTTPError with code 404, with a code from 500 to 599, with another code,
\* URLError (no HTTPError), TimeoutError, any other Exception
GenerateOutcomes ==
    {"response", "empty", "http404", "http5xx", "http400", "urlerror", "timeout",
     "exception"}

\* no call yet.  retry_count is the argument of the innermost call, outcomes
\* what the attempts of the call came to, ret the pair returned; is_healthy
\* and consecutive_failures are those of _connection_monitor
NoGenerate ==
    [pc |-> "idle", retry_count |-> 0, outcomes |-> <<>>,
     ret |-> [text |-> "", success |-> FALSE],
     is_healthy |-> FALSE, consecutive_failures |-> 0]

\* ollama_generate, but it retries while retry_count <= MAX_RETRIES
ollama_attempt_retries_once_more(outcome) ==
    /\ og.pc = "try"
    /\ LET again == outcome \in {"http5xx", "urlerror"}
                        /\ og.retry_count <= MAX_RETRIES
       IN og' = [og EXCEPT
                    !.outcomes = Append(@, outcome),
                    !.pc = IF again THEN "try" ELSE "returned",
                    !.retry_count = IF again THEN @ + 1 ELSE @,
                    !.ret = IF again THEN @
                            ELSE [text |-> outcome, success |-> outcome = "response"],
                    !.is_healthy = IF outcome = "response" THEN TRUE ELSE @,
                    !.consecutive_failures =
                        IF outcome = "response" THEN 0
                        ELSE IF outcome \in {"urlerror", "timeout"} THEN @ + 1
                        ELSE @]
    /\ UNCHANGED <<auto_trade, execution_log, handler_calls, rt, ra, parsed,
                   formatted, scan, hb2, bridgeVars>>

\* a top-level call ollama_generate(prompt, model): retry_count = 0
ollama_generate ==
    /\ og.pc = "idle"
    /\ og' = [og EXCEPT !.pc = "try", !.retry_count = 0, !.outcomes = <<>>]
    /\ UNCHANGED <<auto_trade, execution_log, handler_calls, rt, ra, parsed,
                   formatted, scan, hb2, bridgeVars>>

\* the body of ollama_generate(prompt, model, retry_count), one attempt
\* against the backend: it returns a pair, or, after time.sleep, returns
\* what ollama_generate(prompt, model, retry_count + 1) returns.  The text of
\* the pair is written as the outcome it tells of
ollama_attempt(outcome) ==
    /\ og.pc = "try"
    /\ LET again == outcome \in {"http5xx", "urlerror"}
                        /\ og.retry_count < MAX_RETRIES
       IN og' = [og EXCEPT
                    !.outcomes = Append(@, outcome),
                    !.pc = IF again THEN "try" ELSE "returned",
                    !.retry_count = IF again THEN @ + 1 ELSE @,
                    !.ret = IF again THEN @
                            ELSE [text |-> outcome, success |-> outcome = "response"],
                    !.is_healthy = IF outcome = "response" THEN TRUE ELSE @,
                    !.consecutive_failures =
                        IF outcome = "response" THEN 0
                        ELSE IF outcome \in {"urlerror", "timeout"} THEN @ + 1
                        ELSE @]
    /\ UNCHANGED <<auto_trade, execution_log, handler_calls, rt, ra, parsed,
                   formatted, scan, hb2, bridgeVars>>

\* ----------------------------------------------------------- format_results
\* the marks of success and of failure, U+2713 and U+2717; a string of this
\* module holds ASCII only, and "+" and "-" stand for them in every text
CheckMark == "+"
CrossMark == "-"

\* FormatPart, but a result that needs confirmation is marked like any other
FormatPartMarked(r) ==
    "[" \o (IF r.success THEN CheckMark ELSE CrossMark) \o " " \o r.tool_name
        \o "] " \o r.output

\* the part of a result: f"[{r.tool_name}] {r.output}" if r.needs_confirm,
\* else f"[{status} {r.tool_name}] {r.output}"
FormatPart(r) ==
    IF r.needs_confirm THEN "[" \o r.tool_name \o "] " \o r.output
    ELSE "[" \o (IF r.success THEN CheckMark ELSE CrossMark) \o " " \o r.tool_name
             \o "] " \o r.output

\* no format_results yet
NoFormat == [results |-> <<>>, text |-> "", done |-> FALSE]

\* ToolRuntime.format_results(results), of the results given
format_results ==
    /\ ~formatted.done
    /\ formatted' = [formatted EXCEPT
                        !.text = JoinLines([i \in 1..Len(formatted.results) |->
                                               FormatPart(formatted.results[i])]),
                        !.done = TRUE]
    /\ UNCHANGED <<auto_trade, execution_log, handler_calls, rt, ra, parsed,
                   scan, og, hb2, bridgeVars>>

\* no execute_all yet
NoExecuteAll ==
    [calls |-> <<>>, skip_confirm |-> FALSE, success |-> <<>>, logged |-> 0,
     outcome |-> "none", results |-> <<>>]

RTInit ==
    /\ auto_trade = FALSE
    /\ execution_log = <<>>
    /\ handler_calls = 0
    /\ rt = [name |-> "", params |-> "", skip_confirm |-> FALSE,
             outcome |-> "none", result |-> NoResult]
    /\ ra = NoExecuteAll
    /\ parsed = NoParse
    /\ formatted = NoFormat
    /\ scan = NoScan
    /\ og = NoGenerate
    /\ hb2 = NoHeartbeat2

\* ToolRuntime.execute(call, skip_confirm); success: what the handler reports
execute(name, params, skip_confirm, success) ==
    /\ Len(execution_log) < MaxLog
    /\ LET g == Gate(name, skip_confirm, auto_trade)
           result == ToolResult(success, "output", name, FALSE)
       IN IF g.outcome = "call"
          THEN /\ handler_calls' = handler_calls + 1
               /\ execution_log' = Append(execution_log, result)
               /\ rt' = [name |-> name, params |-> params,
                         skip_confirm |-> skip_confirm,
                         outcome |-> "return", result |-> result]
          ELSE /\ success    \* no handler runs: nothing to choose
               /\ rt' = [name |-> name, params |-> params,
                         skip_confirm |-> skip_confirm,
                         outcome |-> g.outcome, result |-> g.result]
               /\ UNCHANGED <<handler_calls, execution_log>>
    /\ UNCHANGED <<auto_trade, ra, parsed, formatted, scan, og, hb2, bridgeVars>>

\* _tool_trade_history converts params["limit"] with int(), outside any try:
\* a limit that is no number raises ValueError out of the handler
HandlerRaises(name, params) == name = "trade_history" /\ params = "limit=abc"

\* ToolRuntime.execute(call, skip_confirm) on a call whose handler raises:
\* the handler is called, nothing is appended and execute raises
execute_handler_raises(name, params, skip_confirm) ==
    /\ Len(execution_log) < MaxLog
    /\ handler_calls < MaxLog
    /\ HandlerRaises(name, params)
    /\ Gate(name, skip_confirm, auto_trade).outcome = "call"
    /\ handler_calls' = handler_calls + 1
    /\ rt' = [name |-> name, params |-> params, skip_confirm |-> skip_confirm,
              outcome |-> "ValueError", result |-> NoResult]
    /\ UNCHANGED <<execution_log, auto_trade, ra, parsed, formatted, scan, og, hb2, bridgeVars>>

\* the loop of execute_all from call i on: r.results and r.log are the list
\* results and self.execution_log so far, r.handlers the handler calls made,
\* r.last the last execute.  An execute that raises ends the loop, and
\* execute_all, with its exception
RECURSIVE ExecuteFrom(_, _, _, _, _, _)
ExecuteFrom(i, calls, skip_confirm, auto, success, r) ==
    IF i > Len(calls) THEN r
    ELSE LET g == Gate(calls[i], skip_confirm, auto)
             result == ToolResult(success[i], "output", calls[i], FALSE)
             last == [name |-> calls[i], params |-> "",
                      skip_confirm |-> skip_confirm]
         IN IF g.outcome = "call"
            THEN ExecuteFrom(i + 1, calls, skip_confirm, auto, success,
                     [r EXCEPT !.results = Append(@, result),
                               !.log = Append(@, result),
                               !.handlers = @ + 1,
                               !.last = last @@ [outcome |-> "return",
                                                 result |-> result]])
            ELSE IF g.outcome = "return"
            THEN ExecuteFrom(i + 1, calls, skip_confirm, auto, success,
                     [r EXCEPT !.results = Append(@, g.result),
                               !.last = last @@ [outcome |-> "return",
                                                 result |-> g.result]])
            ELSE [r EXCEPT !.outcome = g.outcome,
                           !.last = last @@ [outcome |-> g.outcome,
                                             result |-> g.result]]

\* ToolRuntime.execute_all(calls, skip_confirm); success[i]: what the handler
\* of call i reports, if it runs
execute_all(calls, skip_confirm, success) ==
    /\ Len(execution_log) < MaxLog
    /\ LET r == ExecuteFrom(1, calls, skip_confirm, auto_trade, success,
                    [outcome |-> "return", results |-> <<>>,
                     log |-> execution_log, handlers |-> 0, last |-> rt])
       IN /\ execution_log' = r.log
          /\ handler_calls' = handler_calls + r.handlers
          /\ rt' = r.last
          /\ ra' = [calls |-> calls, skip_confirm |-> skip_confirm,
                    success |-> success, logged |-> Len(execution_log),
                    outcome |-> r.outcome,
                    results |-> IF r.outcome = "return" THEN r.results ELSE <<>>]
    /\ UNCHANGED <<auto_trade, parsed, formatted, scan, og, hb2, bridgeVars>>

\* ------------------------------------------------------------ specifications
vars == <<bridgeVars, rtVars>>

\* the steps of the heartbeat thread, its drain included
\* raises: what a handler may do; ok: whether agent.chat may succeed now
Heartbeat(raises, ok) ==
    \/ heartbeat_top
    \/ \E reachable \in BOOLEAN : heartbeat_probe(reachable)
    \/ drain_loop("hb")
    \/ \E outcome \in Outcomes : (outcome = "ok" => ok) /\ drain_chat("hb", outcome)
    \/ \E r \in raises : drain_check("hb", r)
    \/ drain_end("hb")
    \/ heartbeat_connected

\* the steps of a thread that calls retry_queue
Retry(raises, ok) ==
    \/ retry_queue_call
    \/ drain_loop("ui")
    \/ \E outcome \in Outcomes : (outcome = "ok" => ok) /\ drain_chat("ui", outcome)
    \/ \E r \in raises : drain_check("ui", r)
    \/ drain_end("ui")
    \/ retry_queue_return
    \/ caller_resume("ui")

\* the steps of a thread that calls send_message
Send(sends, callbacks, dispatches) ==
    \/ send_message_call(sends, callbacks, dispatches)
    \/ send_message_append
    \/ caller_resume("snd")

\* the steps of the _dispatch threads
Dispatch ==
    \/ \E p \in DOMAIN disp, outcome \in Outcomes : dispatch_chat(p, outcome)
    \/ \E p \in DOMAIN disp, r \in Raises : dispatch_check(p, r)
    \/ \E p \in DOMAIN disp : dispatch_exit(p)

\* a thread is inside a call (a heartbeat iteration, a dispatch)
hbBusy == pc.hb \notin {"none", "top", "sleep"}
uiBusy == pc.ui # "idle"
sndBusy == pc.snd # "idle"

\* Spec: the heartbeat thread, a thread that calls send_message and the
\* dispatch threads, freely interleaved
Init == BridgeInit /\ RTInit
Next ==
    \/ start_heartbeat
    \/ Heartbeat(Raises, TRUE)
    \/ Send(MaxSends, BOOLEAN, MaxSends)
    \/ Dispatch
Spec == Init /\ [][Next]_vars

\* SpecQueue: a thread that calls send_message, freely interleaved with the
\* heartbeat thread and a thread that calls retry_queue, which take turns (a
\* heartbeat iteration or a retry_queue call at a time), around a full queue: the first
\* QueueFill prompts are sent with the backend down and nothing drained, and
\* ExtraSends more follow under every interleaving.  No live dispatch, no
\* per-message callback, no raising handler; the agent delivers a queued
\* prompt only while no more than DrainDepth of the first QueueFill are gone.
QueueFill == MaxQueueLen - 1
MaxSendsQ == QueueFill + ExtraSends
NearlyFull == Len(message_queue) >= QueueFill - DrainDepth
NextQueue ==
    \/ start_heartbeat
    \/ ~uiBusy /\ heartbeat_top
    \/ heartbeat_probe(FALSE)
    \/ Send(MaxSendsQ, {FALSE}, 0)
    \/ nextId > QueueFill /\ ~uiBusy /\ Heartbeat({"none"}, NearlyFull)
    \/ nextId > QueueFill /\ ~hbBusy /\ Retry({"none"}, NearlyFull)
SpecQueue == Init /\ [][NextQueue]_vars

\* SpecSeq: the operations on the queue one at a time: a heartbeat iteration,
\* a retry_queue call or a send_message call (made while Disconnected) takes
\* its steps only while no other is under way
NextSeq ==
    \/ start_heartbeat
    \/ ~uiBusy /\ ~sndBusy /\ Heartbeat(Raises, TRUE)
    \/ ~hbBusy /\ ~sndBusy /\ Retry(Raises, TRUE)
    \/ ~hbBusy /\ ~uiBusy /\ Send(MaxSendsSeq, BOOLEAN, 0)
SpecSeq == Init /\ [][NextSeq]_vars

\* SpecInfo: the heartbeat thread, a thread that calls send_message and the
\* dispatch threads, freely interleaved, and the UI thread calling
\* get_status_info while the others stand; no per-message callback, no
\* raising handler
NextInfo ==
    \/ ~uiBusy /\ start_heartbeat
    \/ ~uiBusy /\ Heartbeat({"none"}, TRUE)
    \/ ~uiBusy /\ Send(MaxSends, {FALSE}, MaxSends)
    \/ ~uiBusy /\ \E p \in DOMAIN disp, outcome \in Outcomes : dispatch_chat(p, outcome)
    \/ ~uiBusy /\ \E p \in DOMAIN disp : dispatch_check(p, "none")
    \/ ~uiBusy /\ \E p \in DOMAIN disp : dispatch_exit(p)
    \/ get_status_info
    \/ status_shown
SpecInfo == Init /\ [][NextInfo]_vars

\* SpecRT: a ToolRuntime, constructed with either auto_trade, executing calls
InitRT ==
    /\ BridgeInit
    /\ auto_trade \in BOOLEAN
    /\ execution_log = <<>>
    /\ handler_calls = 0
    /\ rt = [name |-> "", params |-> "", skip_confirm |-> FALSE,
             outcome |-> "none", result |-> NoResult]
    /\ ra = NoExecuteAll
    /\ parsed = NoParse
    /\ formatted = NoFormat
    /\ scan = NoScan
    /\ og = NoGenerate
    /\ hb2 = NoHeartbeat2
NextRT ==
    \E name \in CallNames, params \in CallParams, skip_confirm \in BOOLEAN,
       success \in BOOLEAN : execute(name, params, skip_confirm, success)
SpecRT == InitRT /\ [][NextRT]_vars

\* SpecAll: a ToolRuntime, constructed with either auto_trade, executing
\* lists of up to MaxCalls calls
SeqsUpTo(S, n) == UNION {[1..k -> S] : k \in 0..n}
AllNames == {"file_read", "file_delete", "trade_buy", "does_not_exist"}
NextAll ==
    \E calls \in SeqsUpTo(AllNames, MaxCalls), skip_confirm \in BOOLEAN :
       \E success \in [1..Len(calls) -> BOOLEAN] :
          execute_all(calls, skip_confirm, success)
SpecAll == InitRT /\ [][NextAll]_vars

\* SpecParse: a ToolRuntime parsing one-line texts of the documented format,
\* @tool name key="value" ..., with up to MaxParams parameters of distinct
\* keys, the values free of quotes and backslashes
ParseNames == {"web_search", "file_read", "x"}
ParseKeys == {"query", "path", "k_1"}
ParseValues == {"", "rust vs go", "a=b", "it's", " x "}

\* the parameter lists: sequences of <<key, value>> with distinct keys
ParamLists ==
    {kvs \in SeqsUpTo(ParseKeys \X ParseValues, MaxParams) :
        \A i, j \in 1..Len(kvs) : i # j => kvs[i][1] # kvs[j][1]}

\* the text of a call
RECURSIVE FormatParams(_)
FormatParams(kvs) ==
    IF Len(kvs) = 0 THEN ""
    ELSE " " \o kvs[1][1] \o "=\"" \o kvs[1][2] \o "\"" \o FormatParams(Tail(kvs))
FormatCall(name, kvs) == "@tool " \o name \o FormatParams(kvs)

\* the calls of the format, with the text of each
FormattedCalls ==
    {[name |-> name, kvs |-> kvs, text |-> FormatCall(name, kvs)] :
        name \in ParseNames, kvs \in ParamLists}

InitParse ==
    /\ BridgeInit
    /\ auto_trade = FALSE
    /\ execution_log = <<>>
    /\ handler_calls = 0
    /\ rt = [name |-> "", params |-> "", skip_confirm |-> FALSE,
             outcome |-> "none", result |-> NoResult]
    /\ ra = NoExecuteAll
    /\ formatted = NoFormat
    /\ scan = NoScan
    /\ og = NoGenerate
    /\ hb2 = NoHeartbeat2
    /\ \E f \in FormattedCalls : parsed = [NoParse EXCEPT !.text = f.text]
NextParse == parse
SpecParse == InitParse /\ [][NextParse]_vars

\* ==================================================================== claims
\* the calls of the five event handlers among evs (the per-message callback
\* is no event handler)
HandlerEvents(evs) == SelectSeq(evs, LAMBDA x : x.e # "callback")

\* how many of evs are calls of handler e
RECURSIVE Count(_, _)
Count(evs, e) ==
    IF evs = <<>> THEN 0
    ELSE (IF Head(evs).e = e THEN 1 ELSE 0) + Count(Tail(evs), e)

\* the queue entry of the send_message call under way
SendEntry == [prompt |-> send.prompt, callback |-> send.callback]

\* C1 (SpecQueue): in every reachable state, under every interleaving of
\* send_message with the heartbeat loop, _drain_queue and retry_queue, the
\* queue holds at most 50 entries.
C1_QueueBound == Len(message_queue) <= MaxQueueLen

\* the 51st prompt has been queued, and the queue is full
C1_Witness ==
    /\ pc.snd = "returned"
    /\ send.ret = "queued"
    /\ send.prompt = MaxQueueLen + 1
    /\ Len(message_queue) = MaxQueueLen

\* C2 (SpecQueue): the append of send_message on a queue of 50 entries
\* [e1..e50] leaves [e2..e50, new] and returns "queued".
C2_EvictsOldest ==
    [][(pc.snd = "append" /\ pc'.snd = "returned" /\ Len(message_queue) = MaxQueueLen)
       => /\ message_queue' = Tail(message_queue) \o <<SendEntry>>
          /\ send'.ret = "queued"]_vars

\* prompt 51 has been queued behind 2..50: prompt 1 is gone
C2_Witness ==
    /\ pc.snd = "returned"
    /\ send.ret = "queued"
    /\ Len(message_queue) = MaxQueueLen
    /\ \A i \in 1..MaxQueueLen : message_queue[i].prompt = i + 1

\* C3 (Spec): a send_message call that reads Disconnected starts no dispatch,
\* appends its one entry and returns "queued"; a call that reads any other
\* state returns "sent", starts exactly one dispatch, of its prompt, and
\* leaves the queue alone.
C3_SentOrQueued ==
    [][/\ (pc.snd = "idle" /\ pc'.snd # "idle") =>
            IF status = DISCONNECTED
            THEN /\ pc'.snd = "append"
                 /\ disp' = disp
                 /\ message_queue' = message_queue
            ELSE /\ pc'.snd = "returned"
                 /\ send'.ret = "sent"
                 /\ message_queue' = message_queue
                 /\ send'.prompt \notin DOMAIN disp
                 /\ DOMAIN disp' = DOMAIN disp \cup {send'.prompt}
                 /\ disp'[send'.prompt].pc = "chat"
                 /\ \A p \in DOMAIN disp : disp'[p] = disp[p]
       /\ (pc.snd = "append" /\ pc'.snd # "append") =>
            /\ send.read = DISCONNECTED
            /\ pc'.snd = "returned"
            /\ send'.ret = "queued"
            /\ disp' = disp
            /\ Len(message_queue) < MaxQueueLen
                 => message_queue' = Append(message_queue, SendEntry)
            /\ message_queue'[Len(message_queue')] = SendEntry
      ]_vars

\* a call has returned "queued" while the dispatch of an earlier call, which
\* returned "sent", is still running
C3_Witness ==
    /\ pc.snd = "returned"
    /\ send.ret = "queued"
    /\ message_queue # <<>>
    /\ message_queue[Len(message_queue)] = SendEntry
    /\ \E p \in DOMAIN disp : p < send.prompt

\* C4 (SpecSeq): a retry_queue call whose first delivery fails (the agent
\* sets its error flag, or raises) has tried the head entry only, leaves the
\* queue as it found it and returns 0.
C4_FailedHeadKeepsQueue ==
    (pc.ui = "returned" /\ drain.ui.failed /\ drain.ui.delivered = 0)
    => /\ message_queue = retry.before
       /\ drain.ui.att = <<Head(retry.before).prompt>>
       /\ retry.ret = 0

\* retry_queue found [1, 2, 3] and the delivery of 1 failed
C4_Witness ==
    /\ pc.ui = "returned"
    /\ drain.ui.failed
    /\ drain.ui.delivered = 0
    /\ Len(retry.before) = 3
    /\ message_queue = retry.before

\* C5 (Spec): a heartbeat iteration that starts Connected and whose probe
\* fails ends Disconnected, having called on_status_change once, with
\* (Connected, Disconnected); the next iteration, if its probe fails too, ends
\* Disconnected and calls on_status_change not at all.
C5_FailedProbes ==
    (pc.hb = "sleep" /\ hb.reachable = "fail")
    => /\ status = DISCONNECTED
       /\ hb.old_status = CONNECTED
            => ev.hb = <<EvStatus(CONNECTED, DISCONNECTED)>>
       /\ hb.prev \in {"fail", "fail_connected"} => ev.hb = <<>>

\* the second of two failed probes after Connected
C5_Witness ==
    /\ pc.hb = "sleep"
    /\ hb.reachable = "fail"
    /\ hb.prev = "fail_connected"
    /\ status = DISCONNECTED
    /\ ev.hb = <<>>

\* C6 (SpecSeq): a send_message call that queues into the empty queue calls
\* on_message_queued(prompt, 1); and a heartbeat iteration that starts
\* Disconnected, probes successfully and delivers the one queued prompt calls
\* on_status_change(Disconnected, Reconnecting), on_message_delivered(prompt,
\* reply), on_queue_drained(1) and on_status_change(old, Connected), in this
\* order, old being Reconnecting or (the collapsed transition) Disconnected,
\* and leaves the queue empty.
C6_QueueThenDrain ==
    /\ (pc.snd = "returned" /\ send.ret = "queued" /\ message_queue = <<SendEntry>>)
       => ev.snd = <<EvQueued(send.prompt, 1)>>
    /\ (/\ pc.hb = "sleep"
        /\ hb.old_status = DISCONNECTED
        /\ hb.reachable = "ok"
        /\ Len(drain.hb.att) = 1
        /\ ~drain.hb.failed)
       => LET p == drain.hb.att[1]
              h == HandlerEvents(ev.hb)
          IN /\ Len(h) = 4
             /\ h[1] = EvStatus(DISCONNECTED, RECONNECTING)
             /\ h[2] = EvDelivered(p, Reply(p))
             /\ h[3] = EvDrained(1)
             /\ h[4] \in {EvStatus(RECONNECTING, CONNECTED),
                          EvStatus(DISCONNECTED, CONNECTED)}
             /\ message_queue = <<>>
             /\ status = CONNECTED

\* the first prompt was queued and the next heartbeat iteration delivered it
C6_Witness ==
    /\ pc.hb = "sleep"
    /\ hb.old_status = DISCONNECTED
    /\ hb.reachable = "ok"
    /\ drain.hb.att = <<1>>
    /\ ~drain.hb.failed
    /\ message_queue = <<>>
    /\ Len(HandlerEvents(ev.hb)) = 4

\* C7 (Spec): once a live dispatch has completed, total_messages_sent +
\* total_messages_failed has grown by exactly 1 on its account.
C7_OneCountPerDispatch ==
    \A p \in DOMAIN disp : disp[p].pc = "done" => disp[p].acct = 1

\* C8 (Spec): a completed live dispatch has called exactly one of
\* on_message_delivered and on_message_failed, exactly once.
C8_OneOutcomeEvent ==
    \A p \in DOMAIN disp :
        disp[p].pc = "done"
        => Count(disp[p].events, "delivered") + Count(disp[p].events, "failed") = 1

\* C9 (SpecRT): execute on a call of a Confirm-tier tool, without
\* skip_confirm and without auto_trade, returns a result with needs_confirm
\* true and success false, calls no handler and leaves execution_log alone.
C9_ConfirmGate ==
    [][(/\ rt'.name \in TOOLS
        /\ TierOf(rt'.name) = TIER_CONFIRM
        /\ ~rt'.skip_confirm
        /\ ~auto_trade)
       => /\ rt'.outcome = "return"
          /\ rt'.result.needs_confirm
          /\ ~rt'.result.success
          /\ handler_calls' = handler_calls
          /\ execution_log' = execution_log]_vars

\* C10 (SpecRT): execute on a call whose name the registry lacks returns
\* success false and the output "Unknown tool: <name>", calls no handler and
\* leaves execution_log alone, whatever skip_confirm and auto_trade are.
C10_UnknownTool ==
    [][(rt'.name \notin TOOLS /\ rt'.outcome # "none")
       => /\ rt'.outcome = "return"
          /\ ~rt'.result.success
          /\ rt'.result.output = "Unknown tool: " \o rt'.name
          /\ rt'.result.tool_name = rt'.name
          /\ handler_calls' = handler_calls
          /\ execution_log' = execution_log]_vars

\* an unknown tool was called, with skip_confirm and auto_trade set, after a
\* handler had run
C10_Witness ==
    /\ rt.name = "does_not_exist"
    /\ rt.outcome = "return"
    /\ rt.result.output = "Unknown tool: does_not_exist"
    /\ rt.skip_confirm
    /\ auto_trade
    /\ handler_calls > 0

\* C11 (SpecConc): a retry_queue call returns the number of entries it
\* delivered, which is the number of on_message_delivered calls it made, also
\* when send_message appends entries while it drains; on the empty queue it
\* returns 0.
C11_RetryCountsDelivered ==
    pc.ui = "returned"
    => /\ retry.ret = Count(ev.ui, "delivered")
       /\ retry.before = <<>> => retry.ret = 0


\* SpecConc: the heartbeat thread, a thread that calls retry_queue and a
\* thread that calls send_message (while Disconnected), freely interleaved;
\* no per-message callback, no raising handler
NextConc ==
    \/ start_heartbeat
    \/ Heartbeat({"none"}, TRUE)
    \/ Retry({"none"}, TRUE)
    \/ Send(MaxSends, {FALSE}, 0)
SpecConc == Init /\ [][NextConc]_vars

\* thread t is inside _drain_queue
Draining(t) == pc[t] \in {"drain_loop", "drain_chat", "drain_check", "drain_end"}

\* C13 (SpecConc): at most one execution of _drain_queue is in progress: the
\* drain of a heartbeat iteration and the drain of a retry_queue call do not
\* overlap.
C13_OneDrainAtATime == ~(Draining("hb") /\ Draining("ui"))


\* the entries of a queue
Entries(q) == {q[i] : i \in 1..Len(q)}

\* the entries the drains under way have popped and not yet delivered or put
\* back, at thread positions pcs and drain locals drains
Held(pcs, drains) ==
    {drains[t].msg : t \in {u \in Drainers : pcs[u] \in {"drain_chat", "drain_check"}}}

\* C12 (SpecQueue): a queued entry (in the queue, or in the hands of a drain
\* that has popped it) is still queued after every step, unless the step is
\* its successful delivery by a drain, or an append to the full queue that
\* evicts it as the oldest entry.
C12_QueuedUntilDelivered ==
    [][\A x \in Entries(message_queue) \cup Held(pc, drain) :
          \/ x \in Entries(message_queue') \cup Held(pc', drain')
          \/ \E t \in Drainers : /\ pc[t] = "drain_check"
                                 /\ drain[t].msg = x
                                 /\ last_error = None
          \/ /\ pc.snd = "append" /\ pc'.snd = "returned"
             /\ Len(message_queue) = MaxQueueLen
             /\ x = Head(message_queue)
      ]_vars


\* the entries of q are in the order in which send_message appended them
InEnqueueOrder(q) ==
    \A i, j \in 1..Len(q) : i < j => q[i].prompt < q[j].prompt

\* C14 (SpecQueue): when a drain puts the entry it popped back after a failed
\* delivery, and send_message has appended an entry in between, the queue
\* lists its entries in enqueue order, holds at most 50, and has lost none of
\* the entries it held before the put-back: only the oldest entry, the one
\* put back, may be missing, never the newly appended one.
C14_AppendDuringDrain ==
    [][\A t \in Drainers :
          (/\ pc[t] \in {"drain_chat", "drain_check"}
           /\ pc'[t] = "drain_end"
           /\ drain'[t].failed
           /\ drain[t].appended)
          => /\ InEnqueueOrder(message_queue')
             /\ Len(message_queue') <= MaxQueueLen
             /\ Entries(message_queue) \subseteq Entries(message_queue')
      ]_vars


\* execute holds a call of this tool back for confirmation
Gated(name, skip_confirm, auto) ==
    /\ name \in TOOLS
    /\ TierOf(name) = TIER_CONFIRM
    /\ ~skip_confirm
    /\ IsTradeMutation(name) => ~auto

\* C15 (SpecAll): execute_all returns a list as long as the list of calls,
\* whose i-th result is the result of executing the i-th call (the unknown-tool
\* result, a needs_confirm result, or what the handler reported), the handlers
\* having run in the order of the calls; a failed, unknown or gated call does
\* not keep the calls after it from being executed.
C15_ExecuteAllInOrder ==
    ra.outcome # "none"
    => /\ ra.outcome = "return"
       /\ Len(ra.results) = Len(ra.calls)
       /\ \A i \in 1..Len(ra.calls) :
             LET n == ra.calls[i]
                 x == ra.results[i]
             IN /\ x.tool_name = n
                /\ IF n \notin TOOLS
                   THEN x = ToolResult(FALSE, "Unknown tool: " \o n, n, FALSE)
                   ELSE IF Gated(n, ra.skip_confirm, auto_trade)
                   THEN x.needs_confirm /\ ~x.success
                   ELSE x = ToolResult(ra.success[i], "output", n, FALSE)
       /\ SubSeq(execution_log, ra.logged + 1, Len(execution_log))
            = SelectSeq(ra.results, LAMBDA x : x.output = "output")


\* C16 (SpecRT): without skip_confirm, execute on trade_buy, trade_sell or
\* trade_cancel calls the handler when auto_trade is set and otherwise holds
\* the call back (a needs_confirm result, no handler call); every other
\* Confirm-tier tool is held back whatever auto_trade is.
C16_AutoTradeCarveOut ==
    [][(/\ rt'.name \in TOOLS
        /\ TierOf(rt'.name) = TIER_CONFIRM
        /\ ~rt'.skip_confirm)
       => IF IsTradeMutation(rt'.name) /\ auto_trade
          THEN /\ handler_calls' = handler_calls + 1
               /\ rt'.outcome = "return"
               /\ ~rt'.result.needs_confirm
          ELSE /\ handler_calls' = handler_calls
               /\ rt'.outcome = "return"
               /\ rt'.result.needs_confirm]_vars


\* SpecRaise: SpecConc, with handlers that raise where no try block holds
\* the exception
NextRaise ==
    \/ NextConc
    \/ send_message_append_raises
    \/ \E reachable \in BOOLEAN : heartbeat_probe_raises(reachable)
    \/ heartbeat_connected_raises
    \/ \E t \in Drainers : drain_end_raises(t)
    \/ \E t \in {"ui", "snd"} : caller_unwinds(t)
SpecRaise == Init /\ [][NextRaise]_vars

\* C17 (SpecRaise): send_message, retry_queue and the heartbeat loop raise
\* nothing to their caller, whatever the probe, the agent, the event
\* handlers and the callbacks do: no call ends, and the heartbeat thread
\* does not end, with an exception.
C17_NeverRaises == \A t \in {"hb", "ui", "snd"} : pc[t] # "raised"


\* the params of a call with the parameter list kvs
ParamsOf(kvs) ==
    [k \in {kvs[i][1] : i \in 1..Len(kvs)} |->
        LET i == CHOOSE j \in 1..Len(kvs) : kvs[j][1] = k IN kvs[i][2]]

\* C18 (SpecParse): parse_tool_calls on the one line @tool name k1="v1" ...
\* kn="vn", the keys distinct, the values free of escapes (they may hold
\* spaces), returns exactly one ToolCall, whose name is name and whose params
\* are exactly {k1: v1, ..., kn: vn}.
C18_ParseOneLine ==
    \A f \in FormattedCalls :
        parsed.done /\ parsed.text = f.text
        => /\ Len(parsed.calls) = 1
           /\ parsed.calls[1].name = f.name
           /\ parsed.calls[1].params = ParamsOf(f.kvs)

\* the example of the claim
C18_Witness ==
    /\ parsed.done
    /\ parsed.text = "@tool web_search query=\"rust vs go\""
    /\ Len(parsed.calls) = 1
    /\ parsed.calls[1].name = "web_search"
    /\ parsed.calls[1].params = [k \in {"query"} |-> "rust vs go"]


\* C19 (SpecInfo): a get_status_info call leaves the state, the queue,
\* consecutive_failures, total_messages_sent, total_messages_failed and
\* last_check_time as they are, and the dict it returns holds the state, the
\* length of the queue and the three counters as they are at the call.
C19_StatusInfoReadOnly ==
    [][(pc.ui = "idle" /\ pc'.ui = "info")
       => /\ status' = status
          /\ message_queue' = message_queue
          /\ consecutive_failures' = consecutive_failures
          /\ total_messages_sent' = total_messages_sent
          /\ total_messages_failed' = total_messages_failed
          /\ last_check_time' = last_check_time
          /\ info'.status = status
          /\ info'.queued_messages = Len(message_queue)
          /\ info'.consecutive_failures = consecutive_failures
          /\ info'.total_sent = total_messages_sent
          /\ info'.total_failed = total_messages_failed]_vars

\* a call made with a prompt queued, after failed probes and a failed dispatch
C19_Witness ==
    /\ pc.ui = "info"
    /\ info.status = DISCONNECTED
    /\ info.queued_messages = 1
    /\ info.consecutive_failures = 2
    /\ info.total_sent = 1
    /\ info.total_failed = 1
    /\ info.last_check = "HH:MM:SS"


\* C20 (Spec): a heartbeat iteration whose probe succeeds goes on to
\* _drain_queue if and only if it began Disconnected (and no iteration whose
\* probe fails does); the drain begins with the state set to Reconnecting and
\* on_status_change(Disconnected, Reconnecting) called, the state is
\* Reconnecting while it runs, and the state becomes Connected only after it
\* has returned.
C20_DrainOnReconnect ==
    [][/\ (pc.hb = "probe" /\ pc'.hb # "probe")
          => /\ pc'.hb = "drain_loop"
                  <=> (hb'.reachable = "ok" /\ hb.old_status = DISCONNECTED)
             /\ pc'.hb = "drain_loop"
                  => /\ status' = RECONNECTING
                     /\ ev'.hb = <<EvStatus(DISCONNECTED, RECONNECTING)>>
       /\ Draining("hb") => status = RECONNECTING /\ status' = RECONNECTING
       /\ (status = RECONNECTING /\ status' # RECONNECTING)
          => pc.hb = "drain_ret" /\ status' = CONNECTED
      ]_vars

\* the drain of an iteration that began Disconnected is delivering a prompt
C20_Witness ==
    /\ pc.hb = "drain_chat"
    /\ hb.old_status = DISCONNECTED
    /\ hb.reachable = "ok"
    /\ status = RECONNECTING
    /\ ev.hb = <<EvStatus(DISCONNECTED, RECONNECTING)>>



\* C21 (SpecConc): a delivery that fails in a drain leaves the state as it
\* is: a heartbeat iteration whose probe succeeded ends Connected, also when
\* its drain delivered nothing and left the queue non-empty, and no step of a
\* retry_queue call changes the state.
C21_DrainFailureKeepsState ==
    [][/\ (pc'.hb = "sleep" /\ hb'.reachable = "ok") => status' = CONNECTED
       /\ \A t \in Drainers :
             (pc[t] \in {"drain_chat", "drain_check"} /\ pc'[t] = "drain_end"
              /\ drain'[t].failed)
             => status' = status
       /\ (pc'.ui # pc.ui \/ drain'.ui # drain.ui \/ retry' # retry)
          => status' = status
      ]_vars

\* an iteration that began Disconnected has ended Connected, its drain
\* having failed at the first entry
C21_Witness ==
    /\ pc.hb = "sleep"
    /\ hb.reachable = "ok"
    /\ hb.old_status = DISCONNECTED
    /\ drain.hb.failed
    /\ drain.hb.delivered = 0
    /\ message_queue # <<>>
    /\ status = CONNECTED



\* C22 (SpecConc): the drains deliver the queued prompts in the order in
\* which send_message enqueued them: when a drain delivers an entry, no
\* entry enqueued before it is still undelivered (in the queue, or popped by
\* a drain and not yet delivered or put back).
C22_DeliveredInOrder ==
    [][\A t \in Drainers :
          (pc[t] = "drain_check" /\ pc'[t] # "drain_check" /\ last_error = None)
          => \A x \in Entries(message_queue) \cup Held(pc, drain) :
                x.prompt >= drain[t].msg.prompt
      ]_vars



\* thread t has come out of the _drain_queue call, if any, of its current
\* iteration or retry_queue call
Drained(t) ==
    IF t = "hb" THEN pc.hb \in {"drain_ret", "sleep"}
    ELSE pc.ui \in {"retry_ret", "returned"}

\* C23 (SpecSeq): a drain calls on_queue_drained at most once, and not
\* before its loop has ended; having ended, it has called it if and only if
\* it delivered at least one entry, with the number of its deliveries (its
\* on_message_delivered calls), and after the last of them.
C23_QueueDrainedOnce ==
    \A t \in Drainers :
        LET h == HandlerEvents(ev[t])
            n == Count(ev[t], "delivered")
        IN /\ Count(ev[t], "drained") <= 1
           /\ pc[t] \in {"drain_loop", "drain_chat", "drain_check", "drain_end"}
                => Count(ev[t], "drained") = 0
           /\ Drained(t)
                => /\ Count(ev[t], "drained") = (IF n > 0 THEN 1 ELSE 0)
                   /\ n = drain[t].delivered
                   /\ n > 0 => \E i \in 1..Len(h) :
                                  /\ h[i] = EvDrained(n)
                                  /\ \A j \in 1..Len(h) :
                                        h[j].e = "delivered" => j < i

\* a retry_queue call found three entries, delivered two and failed at the
\* third
C23_Witness ==
    /\ pc.ui = "returned"
    /\ Len(retry.before) = 3
    /\ drain.ui.failed
    /\ Count(ev.ui, "delivered") = 2
    /\ ev.ui[Len(ev.ui)] = EvDrained(2)



\* the heartbeat thread takes the step of its probe
Probes == pc.hb = "probe" /\ pc'.hb # "probe"

\* C24 (SpecCount): the step of a successful probe sets
\* consecutive_failures to 0, the step of a failed probe adds exactly 1 to
\* it, and no other step, of the heartbeat loop, a drain, retry_queue,
\* send_message, a dispatch or get_status_info, changes it: after every
\* iteration it is the number of failed probes since the last successful one.
C24_ConsecutiveFailures ==
    [][IF Probes
       THEN consecutive_failures' =
               IF hb'.reachable = "ok" THEN 0 ELSE consecutive_failures + 1
       ELSE consecutive_failures' = consecutive_failures
      ]_vars

\* the second of two failed probes
C24_Witness ==
    /\ pc.hb = "sleep"
    /\ hb.reachable = "fail"
    /\ hb.prev \in {"fail", "fail_connected"}
    /\ consecutive_failures = 2



\* SpecCount: the heartbeat thread and a thread that calls retry_queue (an
\* iteration or a call at a time), a thread that calls send_message, the
\* dispatch threads and the _sz_call threads that call the agent themselves,
\* freely interleaved (a _sz_call thread starting when no dispatch is
\* live), and get_status_info called between two retry_queue calls; no
\* per-message callback, no raising handler
NextCount ==
    \/ start_heartbeat
    \/ ~uiBusy /\ Heartbeat({"none"}, TRUE)
    \/ ~hbBusy /\ Retry({"none"}, TRUE)
    \/ Send(MaxSends, {FALSE}, MaxSends)
    \/ \E p \in DOMAIN disp, outcome \in Outcomes : dispatch_chat(p, outcome)
    \/ \E p \in DOMAIN disp : dispatch_check(p, "none")
    \/ \E p \in DOMAIN disp : dispatch_exit(p)
    \/ DOMAIN disp = {} /\ sz_call(MaxSends)
    \/ \E p \in DOMAIN disp, outcome \in Outcomes : sz_call_chat(p, outcome)
    \/ \E p \in DOMAIN disp : sz_call_check(p)
    \/ get_status_info
    \/ status_shown
SpecCount == Init /\ [][NextCount]_vars

\* a dispatch, of send_message or of _sz_call, comes to its end
Completes ==
    \E p \in DOMAIN disp : disp[p].pc # "done" /\ disp'[p].pc = "done"

\* C25 (SpecCount): no step decreases total_messages_sent or
\* total_messages_failed; total_messages_sent changes only in the step of
\* send_message that starts a dispatch and in the completion of a dispatch,
\* total_messages_failed only in the completion of a dispatch; no step of
\* the heartbeat loop, of a drain or of retry_queue changes either.
C25_CountersMonotone ==
    [][/\ total_messages_sent' >= total_messages_sent
       /\ total_messages_failed' >= total_messages_failed
       /\ total_messages_sent' # total_messages_sent
          => \/ pc.snd = "idle" /\ pc'.snd = "returned" /\ send'.ret = "sent"
             \/ Completes
       /\ total_messages_failed' # total_messages_failed => Completes
      ]_vars

\* a dispatch has failed and a heartbeat iteration has delivered a queued
\* prompt: one prompt counted as sent, one failure
C25_Witness ==
    /\ pc.hb = "sleep"
    /\ drain.hb.delivered = 1
    /\ total_messages_sent = 1
    /\ total_messages_failed = 1



\* C26 (SpecCount): every on_status_change(old, new) has old # new and is
\* called in a step that changes the state; a heartbeat iteration that ends
\* in the state it began in (Connected and the probe succeeded, Disconnected
\* and the probe failed) calls on_status_change not at all.
C26_StatusChangeOnlyOnChange ==
    [][/\ \A i \in 1..Len(ev'.hb) :
             ev'.hb[i].e = "status" => ev'.hb[i].old # ev'.hb[i].new
       /\ Count(ev'.hb, "status") > Count(ev.hb, "status") => status' # status
       /\ (/\ pc'.hb = "sleep"
           /\ \/ hb'.old_status = CONNECTED /\ hb'.reachable = "ok"
              \/ hb'.old_status = DISCONNECTED /\ hb'.reachable = "fail")
          => Count(ev'.hb, "status") = 0 /\ status' = hb'.old_status
      ]_vars

\* the second of two iterations that found the backend up
C26_Witness ==
    /\ pc.hb = "sleep"
    /\ hb.old_status = CONNECTED
    /\ hb.reachable = "ok"
    /\ hb.prev = "ok"
    /\ status = CONNECTED
    /\ ev.hb = <<>>



\* C27 (SpecCount): self.status changes only in a step of the heartbeat
\* loop outside _drain_queue: no step of send_message, of a dispatch, of
\* _drain_queue, of retry_queue or of get_status_info changes it.
C27_StateChangedByHeartbeatOnly ==
    [][/\ status' # status
          => /\ pc.hb \in {"probe", "drain_ret"}
             /\ pc'.hb # pc.hb
             /\ pc'.ui = pc.ui
             /\ pc'.snd = pc.snd
             /\ disp' = disp
       /\ (pc'.ui # pc.ui \/ pc'.snd # pc.snd \/ disp' # disp \/ info' # info)
          => status' = status
       /\ \A t \in Drainers : (Draining(t) /\ pc'[t] # pc[t]) => status' = status
      ]_vars

\* a dispatch has failed and send_message has returned "sent" while the
\* drain of a heartbeat iteration is under way: the state is Reconnecting
C27_Witness ==
    /\ status = RECONNECTING
    /\ pc.hb = "drain_chat"
    /\ pc.snd = "returned"
    /\ send.ret = "sent"
    /\ total_messages_failed = 1
    /\ \E p \in DOMAIN disp : disp[p].pc = "done" /\ Count(disp[p].events, "failed") = 1



\* SpecStop: the heartbeat thread, a thread that calls stop_heartbeat and
\* start_heartbeat, and a thread that calls send_message while Disconnected,
\* freely interleaved; start_heartbeat is called again once the stopped
\* thread has ended
NextStop ==
    \/ pc.hb = "none" /\ start_heartbeat
    \/ stop_heartbeat
    \/ stop_returns
    \/ Heartbeat({"none"}, TRUE)
    \/ heartbeat_exit
    \/ Send(MaxSends, {FALSE}, 0)
SpecStop == Init /\ [][NextStop]_vars

\* C28 (SpecStop): a stop_heartbeat call clears _heartbeat_running and
\* changes nothing else, whether the flag was set or not; and from its return
\* until start_heartbeat is called again, the loop begins no iteration (no
\* probe after the sleep of the iteration under way), and the state and
\* consecutive_failures change only in the iteration under way, not once it
\* has reached its sleep.
C28_StopHeartbeat ==
    [][/\ (pc.ui = "idle" /\ pc'.ui = "stopped")
          => /\ ~heartbeat_running'
             /\ status' = status
             /\ consecutive_failures' = consecutive_failures
             /\ message_queue' = message_queue
             /\ pc'.hb = pc.hb
       /\ ~heartbeat_running
          => /\ ~(pc.hb \in {"none", "top", "sleep"} /\ pc'.hb = "probe")
             /\ pc.hb \in {"none", "top", "sleep"}
                  => /\ status' = status
                     /\ consecutive_failures' = consecutive_failures
                     /\ last_check_time' = last_check_time
      ]_vars

\* stop_heartbeat has returned while the iteration under way is in its
\* drain
C28_Witness ==
    /\ pc.ui = "stopped"
    /\ ~heartbeat_running
    /\ pc.hb = "drain_chat"
    /\ status = RECONNECTING



\* SpecLog: a ToolRuntime, constructed with either auto_trade, executing
\* calls, among them calls of trade_history, whose handler raises on a limit
\* that is no number
LogNames == {"file_read", "file_delete", "trade_buy", "trade_history", "does_not_exist"}
LogParams == {"", "limit=abc"}
NextLog ==
    \/ \E name \in LogNames, params \in LogParams, skip_confirm \in BOOLEAN,
          success \in BOOLEAN :
          ~HandlerRaises(name, params) /\ execute(name, params, skip_confirm, success)
    \/ \E name \in LogNames, params \in LogParams, skip_confirm \in BOOLEAN :
          execute_handler_raises(name, params, skip_confirm)
SpecLog == InitRT /\ [][NextLog]_vars

\* C29 (SpecLog): an execute that calls the handler appends that call's
\* result, and nothing else, to the end of execution_log; no execute removes
\* or reorders an entry; an execute of an unknown or gated call leaves the
\* log alone; and the log is as long as the number of handler calls made.
C29_LogAppendOnly ==
    [][/\ Len(execution_log') >= Len(execution_log)
       /\ SubSeq(execution_log', 1, Len(execution_log)) = execution_log
       /\ handler_calls' # handler_calls
          => /\ handler_calls' = handler_calls + 1
             /\ execution_log' = Append(execution_log, rt'.result)
       /\ handler_calls' = handler_calls => execution_log' = execution_log
       /\ (rt'.name \notin TOOLS \/ Gated(rt'.name, rt'.skip_confirm, auto_trade))
          => execution_log' = execution_log
       /\ Len(execution_log') = handler_calls'
      ]_vars



\* SpecFormat: a ToolRuntime formatting lists of up to MaxResults results:
\* of either success, with or without needs_confirm, the output empty, of one
\* line or of two
FormatOutputs == {"", "done", "File not found: x", "a.txt\nb.txt"}
FormatResults ==
    {ToolResult(success, output, tool_name, needs_confirm) :
        success \in BOOLEAN, output \in FormatOutputs,
        tool_name \in {"file_list", "trade_buy"}, needs_confirm \in BOOLEAN}
InitFormat ==
    /\ BridgeInit
    /\ auto_trade = FALSE
    /\ execution_log = <<>>
    /\ handler_calls = 0
    /\ rt = [name |-> "", params |-> "", skip_confirm |-> FALSE,
             outcome |-> "none", result |-> NoResult]
    /\ ra = NoExecuteAll
    /\ parsed = NoParse
    /\ scan = NoScan
    /\ og = NoGenerate
    /\ hb2 = NoHeartbeat2
    /\ \E results \in SeqsUpTo(FormatResults, MaxResults) :
          formatted = [NoFormat EXCEPT !.results = results]
NextFormat == format_results
SpecFormat == InitFormat /\ [][NextFormat]_vars

\* what a line of a result begins with: the tool name in brackets, the mark
\* of success or of failure before it unless the result needs confirmation
LineHead(r) ==
    IF r.needs_confirm THEN "[" \o r.tool_name \o "] "
    ELSE "[" \o (IF r.success THEN CheckMark ELSE CrossMark) \o " "
             \o r.tool_name \o "] "

\* the lines of the results from the i-th on, each result's output behind
\* its head
RECURSIVE LinesOf(_, _)
LinesOf(results, i) ==
    IF i > Len(results) THEN <<>>
    ELSE SplitLines(LineHead(results[i]) \o results[i].output, 1, "")
         \o LinesOf(results, i + 1)

\* C30 (SpecFormat), as stated: format_results gives exactly one line for
\* each result, in the order of the list, the line of a result beginning with
\* its head (marked unless needs_confirm) and ending with its output; the
\* empty list gives the empty string.
C30_OneLinePerResult ==
    formatted.done
    => LET lines == SplitLines(formatted.text, 1, "")
           results == formatted.results
       IN IF results = <<>> THEN formatted.text = ""
          ELSE /\ Len(lines) = Len(results)
               /\ \A i \in 1..Len(results) :
                     lines[i] = LineHead(results[i]) \o results[i].output

\* C30 (SpecFormat), amended: format_results gives, for each result in the
\* order of the list, the lines of its output, the first of them behind the
\* result's head (marked unless needs_confirm): one line for a result whose
\* output holds no newline, more for one whose output does; the empty list
\* gives the empty string.
C30_OnePartPerResult ==
    formatted.done
    => LET lines == SplitLines(formatted.text, 1, "")
           results == formatted.results
       IN /\ results = <<>> => formatted.text = ""
          /\ results # <<>> => lines = LinesOf(results, 1)
          /\ (\A i \in 1..Len(results) :
                 SplitLines(results[i].output, 1, "") = <<results[i].output>>)
             => \/ results = <<>>
                \/ /\ Len(lines) = Len(results)
                   /\ \A i \in 1..Len(results) :
                         lines[i] = LineHead(results[i]) \o results[i].output

\* a result of two lines and one that needs confirmation: three lines
C30_Witness ==
    /\ formatted.done
    /\ Len(formatted.results) = 2
    /\ formatted.results[1].success
    /\ ~formatted.results[1].needs_confirm
    /\ formatted.results[2].needs_confirm
    /\ formatted.text = "[+ file_list] a.txt\nb.txt\n[trade_buy] done"
    /\ Len(SplitLines(formatted.text, 1, "")) = 3


\* ------------------------------------------------------------ content blocks
\* the most lines in a text given to parse in SpecBlock
MaxBlockLines == 5

\* SpecBlock: a ToolRuntime parsing texts of up to MaxBlockLines lines, each
\* a directive (one of them indented), a fence (one of them indented and
\* with a language tag), or a line that is neither
BlockLines == {"@tool f p=a", " @tool w", "###", " ###py", " x"}
BlockTexts == {JoinLines(lines) : lines \in SeqsUpTo(BlockLines, MaxBlockLines)}

InitBlock ==
    /\ BridgeInit
    /\ auto_trade = FALSE
    /\ execution_log = <<>>
    /\ handler_calls = 0
    /\ rt = [name |-> "", params |-> "", skip_confirm |-> FALSE,
             outcome |-> "none", result |-> NoResult]
    /\ ra = NoExecuteAll
    /\ formatted = NoFormat
    /\ scan = NoScan
    /\ og = NoGenerate
    /\ hb2 = NoHeartbeat2
    /\ \E text \in BlockTexts : parsed = [NoParse EXCEPT !.text = text]
NextBlock == parse
SpecBlock == InitBlock /\ [][NextBlock]_vars

\* C31 (SpecBlock): with the lines of the text numbered from 1, call a
\* directive line live if it lies in no content block, a content block being
\* the lines from the one after a live directive, if that line starts with a
\* fence, to the next line after it that starts with a fence (or to the last
\* line).  parse_tool_calls returns one call per live directive, in the order
\* of the lines, and none for any other line; the call of a live directive
\* followed by a fence has for params["content"] the lines between the two
\* fences, as they are, joined by newlines, and the call of any other live
\* directive has the params of its own line only.
C31_ContentBlock ==
    parsed.done =>
        LET lines == SplitLines(parsed.text, 1, "")
            n == Len(lines)
            IsFence(i) == i \in 1..n /\ StartsWith(Strip(lines[i]), Fence)
            IsDirective(i) == StartsWith(Strip(lines[i]), "@tool ")
            Close(i) ==
                IF \E k \in (i + 2)..n : IsFence(k)
                THEN CHOOSE k \in (i + 2)..n :
                        IsFence(k) /\ \A j \in (i + 2)..(k - 1) : ~IsFence(j)
                ELSE n + 1
            Live == CHOOSE live \in [1..n -> BOOLEAN] :
                        \A i \in 1..n :
                            live[i] <=>
                               /\ IsDirective(i)
                               /\ ~\E j \in 1..(i - 1) :
                                      live[j] /\ IsFence(j + 1) /\ i <= Close(j)
            LiveLines == {i \in 1..n : Live[i]}
            Rank(i) == Cardinality({j \in LiveLines : j <= i})
            OwnParams(i) ==
                parse_params(LStrip(From(Strip(From(Strip(lines[i]), 7)),
                    SpaceRun(Strip(From(Strip(lines[i]), 7)), 1, FALSE) + 1)))
        IN /\ Len(parsed.calls) = Cardinality(LiveLines)
           /\ \A i \in LiveLines :
                LET call == parsed.calls[Rank(i)]
                IN /\ call.raw = Strip(lines[i])
                   /\ IF IsFence(i + 1)
                      THEN /\ "content" \in DOMAIN call.params
                           /\ call.params["content"] =
                                JoinLines([k \in 1..(Close(i) - i - 2) |->
                                              lines[i + 1 + k]])
                           /\ \A key \in DOMAIN call.params \ {"content"} :
                                call.params[key] = OwnParams(i)[key]
                      ELSE call.params = OwnParams(i)

\* a directive followed by a block that holds a directive line, and a
\* directive after the closing fence: two calls, the first with the block's
\* directive line as content
C31_Witness ==
    /\ parsed.done
    /\ parsed.text = "@tool f p=a\n###\n @tool w\n###\n @tool w"
    /\ Len(parsed.calls) = 2
    /\ parsed.calls[1].params =
         [k \in {"p", "content"} |-> IF k = "p" THEN "a" ELSE " @tool w"]
    /\ parsed.calls[2] = ToolCall("w", NoParams, "@tool w")


\* --------------------------------------------------------- malformed texts
\* the most lines in a text given to parse_tool_calls in SpecScan
MaxScanLines == 3

\* SpecScan: parse_tool_calls, a pass of a loop at a time, on texts of up to
\* MaxScanLines lines, each a directive with no tool name, a directive with
\* malformed parameters (a value with no key, a key with no value, a quote
\* never closed), a well-formed directive, a fence, or a line that is none
ScanLines == {"@tool ", "@tool x =v k=", "@tool y a=\"b", "@tool z", "###", " x"}
InitScan ==
    /\ BridgeInit
    /\ auto_trade = FALSE
    /\ execution_log = <<>>
    /\ handler_calls = 0
    /\ rt = [name |-> "", params |-> "", skip_confirm |-> FALSE,
             outcome |-> "none", result |-> NoResult]
    /\ ra = NoExecuteAll
    /\ parsed = NoParse
    /\ formatted = NoFormat
    /\ \E lines \in SeqsUpTo(ScanLines, MaxScanLines) :
          scan = [NoScan EXCEPT !.text = JoinLines(lines),
                                !.lines = SplitLines(JoinLines(lines), 1, "")]
    /\ og = NoGenerate
    /\ hb2 = NoHeartbeat2
NextScan == scan_line \/ scan_block \/ scan_return
\* the call is run to its end: a pass that can be made is made.  This is
\* WF_vars(NextScan), written out with what enables NextScan: a call that
\* has not returned has a pass to make, or returns
SpecScan ==
    InitScan /\ [][NextScan]_vars
        /\ ([]<>scan.returned \/ []<><<NextScan>>_vars)

\* every pass moves the scan index forward, by one line or by two, and the
\* index stays within two of the number of lines
C32_ScanAdvances ==
    [][/\ scan'.i > scan.i \/ (scan'.returned /\ ~scan.returned)
       /\ scan'.i <= Len(scan.lines) + 2]_vars

\* C32 (SpecScan): parse_tool_calls returns on every text, also on one with
\* a directive that names no tool, with malformed parameters or with a block
\* never closed: every pass of its loops moves the scan index forward by at
\* least one line, the index never passes the line after the last by more
\* than one, and the call ends by returning a list with at most one call
\* per line (the list parse_tool_calls is defined to return).
C32_ParseTerminates ==
    /\ C32_ScanAdvances
    /\ <>(/\ scan.returned
          /\ Len(scan.ret) <= Len(scan.lines)
          /\ scan.ret = parse_tool_calls(scan.text))

\* a call returned on a text with a nameless directive, a directive with
\* malformed parameters and a block never closed
C32_Witness ==
    /\ scan.returned
    /\ scan.text = "@tool \n@tool x =v k=\n###"
    /\ scan.i = 5
    /\ Len(scan.ret) = 1
    /\ scan.ret[1] = ToolCall("x", SetParam(NoParams, "content", ""), "@tool x =v k=")


\* ------------------------------------------------------- eventual delivery
\* SpecLive: the heartbeat thread and a thread that calls send_message, and
\* no retry_queue call; no live dispatch, no per-message callback, no raising
\* handler.  The heartbeat thread, once started, keeps running, and a
\* send_message call under way runs to its end
NextLive ==
    \/ start_heartbeat
    \/ Heartbeat({"none"}, TRUE)
    \/ Send(MaxSends, {FALSE}, 0)
SpecLive ==
    Init /\ [][NextLive]_vars
        /\ WF_vars(start_heartbeat \/ Heartbeat({"none"}, TRUE))
        /\ WF_vars(send_message_append \/ caller_resume("snd"))

\* C33 (SpecLive): if from some point on no probe fails and no delivery of
\* a drain fails, the heartbeat loop running, then the queue does not stay
\* non-empty forever while the state is Connected: again and again the queue
\* is empty or the state is not Connected.  (This follows from the claim,
\* that every queued prompt is in the end delivered with no retry_queue
\* call.)
C33_QueueNotStranded ==
    <>[](hb.reachable # "fail" /\ ~drain.hb.failed)
        => []<>(message_queue = <<>> \/ status # CONNECTED)


\* C34 (Spec): the step of a drain that settles the entry it popped, the
\* agent having answered, leaves the entry out of the queue if and only if
\* the delivery succeeded (agent.last_error is None), also when
\* on_message_delivered or the entry's callback raises; an entry delivered
\* is thus not in the queue to be delivered once more.
C34_RemovedIffDelivered ==
    [][\A t \in Drainers :
          (pc[t] = "drain_check" /\ pc'[t] # "drain_check")
          => (last_error = None <=> drain[t].msg \notin Entries(message_queue'))]_vars


\* C35 (Spec): a delivery is classified by its own outcome: while a dispatch,
\* or a drain, stands between the return of its agent.chat call and its
\* test of agent.last_error, no step of another delivery changes
\* agent.last_error, the flag it will be classified by.
C35_OwnOutcome ==
    [][/\ \A p \in DOMAIN disp :
             (disp[p].pc = "check" /\ p \in DOMAIN disp' /\ disp'[p].pc = "check")
             => last_error' = last_error
       /\ \A t \in Drainers :
             (pc[t] = "drain_check" /\ pc'[t] = "drain_check")
             => last_error' = last_error]_vars


\* ------------------------------------------------------ toggle_bridge_view
\* SpecToggle: a thread that calls stop_heartbeat and start_heartbeat in turn
\* (toggle_bridge_view), the heartbeat thread, and the thread a
\* start_heartbeat call starts while the first has not ended; no
\* send_message, so that the queue is empty
NextToggle ==
    \/ pc.hb = "none" /\ pc.ui = "idle" /\ start_heartbeat
    \/ start_heartbeat_second
    \/ stop_heartbeat
    \/ stop_returns
    \/ heartbeat_top
    \/ \E reachable \in BOOLEAN : heartbeat_probe(reachable)
    \/ drain_loop("hb")
    \/ drain_end("hb")
    \/ heartbeat_connected
    \/ heartbeat_exit
    \/ heartbeat2_top
    \/ \E reachable \in BOOLEAN : heartbeat2_probe(reachable)
SpecToggle == Init /\ [][NextToggle]_vars

\* C36 (SpecToggle): under every sequence of start_heartbeat and
\* stop_heartbeat calls, at most one heartbeat loop is at work: no two
\* threads are inside a pass of _heartbeat_loop (past the while test, before
\* time.sleep) at the same time.
C36_OneHeartbeatLoop == ~(hbBusy /\ hb2.pc = "probe")


\* --------------------------------------------------------- ollama_generate
\* SpecGenerate: top-level calls of ollama_generate, each attempt coming to
\* any of the outcomes; a call made runs to its end
NextGenerate ==
    \/ ollama_generate
    \/ \E outcome \in GenerateOutcomes : ollama_attempt(outcome)
SpecGenerate ==
    Init /\ [][NextGenerate]_vars
        /\ WF_vars(\E outcome \in GenerateOutcomes : ollama_attempt(outcome))

\* what holds of an ollama_generate call at every moment: at most
\* MAX_RETRIES + 1 attempts; every attempt but the last came to an HTTP 5xx
\* error or to a URLError, with retry_count below MAX_RETRIES; and the pair
\* returned has success true only for a non-empty response
GenerateBounded ==
    LET n == Len(og.outcomes)
        last == IF og.pc = "returned" THEN n - 1 ELSE n
    IN /\ n <= MAX_RETRIES + 1
       /\ last <= MAX_RETRIES
       /\ og.retry_count = last
       /\ \A i \in 1..last : og.outcomes[i] \in {"http5xx", "urlerror"}
       /\ og.pc = "returned"
          => /\ og.ret.success \in BOOLEAN
             /\ og.ret.success <=> og.outcomes[n] = "response"
             /\ og.outcomes[n] \in {"http5xx", "urlerror"} => n = MAX_RETRIES + 1

\* C39 (SpecGenerate): a top-level call ollama_generate(prompt, model) makes
\* at most MAX_RETRIES + 1 = 4 attempts and then returns; it makes another
\* attempt only after an HTTP 5xx error or a URLError, with retry_count below
\* MAX_RETRIES, never after HTTP 404, a TimeoutError, an empty response or
\* another exception; and it returns a pair (text, success) with success
\* true only when the response was not empty.
C39_GenerateTerminates ==
    /\ []GenerateBounded
    /\ [](og.pc = "try" => <>(og.pc = "returned"))

\* a call that returned after four attempts, the last a URLError
C39_Witness ==
    /\ og.pc = "returned"
    /\ og.outcomes = <<"http5xx", "urlerror", "http5xx", "urlerror">>
    /\ og.retry_count = MAX_RETRIES
    /\ ~og.ret.success


\* C37 (Spec): every on_status_change(old, new) tells the transition that
\* happened: old is the state before the assignment of the step that calls
\* it, new the state after it (so that the old of every call is the new of
\* the call before, from Checking on).
C37_RealTransition ==
    [][\A i \in (Len(ev.hb) + 1)..Len(ev'.hb) :
          ev'.hb[i].e = "status"
          => ev'.hb[i].old = status /\ ev'.hb[i].new = status']_vars


====
